---------------------------- MODULE Spec2Model ----------------------------
(***************************************************************************)
(* Meeting-preparation agents: six handlers, each registered by its own    *)
(* process with the GenAISession runtime.                                  *)
(*                                                                         *)
(*   analyze_meeting_industry_trends  (industry_analysis_agent.py)         *)
(*   research_meeting_participants    (reseach_agent.py)                   *)
(*   develop_meeting_strategy         (meeting_stratergy_agent.py)         *)
(*   compile_meeting_briefing         (summary_briefing_agent.py)          *)
(*   get_weather                      (get_weather_agent/main.py)          *)
(*   get_current_date                 (get_current_date_agent/main.py)     *)
(*                                                                         *)
(* One behaviour of the model is the life of ONE agent process: the        *)
(* module-level names are fixed at start-up (Init), the runtime dispatches *)
(* invocations, and each invocation runs the handler's code step by step,  *)
(* one step per outbound call.                                             *)
(*                                                                         *)
(* Representation of Python values                                         *)
(*   str   a sequence of chunks; text that the code scans (split, strip,   *)
(*         lower, `in`) is a sequence of one-character chunks, a literal   *)
(*         that is only carried around is the one-chunk sequence L("..."), *)
(*         an f-string is the concatenation \o of its parts                *)
(*   list  a sequence       dict  a record / function on its keys          *)
(*   None  the one-chunk sequence <<"None">>                               *)
(***************************************************************************)
EXTENDS Integers, Sequences, FiniteSets, TLC

VARIABLES
    module,     \* module-level names of the agent process, set at import
    pc,         \* pc[i]: where invocation i is
    frame,      \* frame[i]: the local variables of invocation i's handler
    http,       \* http[i]: the outbound calls invocation i has issued
    loop,       \* the invocation the event loop thread is executing, or 0
    outcome     \* outcome[i]: what invocation i handed back to the runtime

vars == <<module, pc, frame, http, loop, outcome>>

---------------------------------------------------------------------------
(* Bounds of the model                                                     *)

NInv == 2             \* invocations the runtime has in flight at once
MaxDeviations == 2    \* provider answers per invocation that are not nominal
MaxLen == 4           \* longest participants string of SpecParse

Inv == 1..NInv

---------------------------------------------------------------------------
(* Strings                                                                 *)

L(s) == <<s>>

None == <<"None">>

UpperAlpha == <<"A","B","C","D","E","F","G","H","I","J","K","L","M","N","O","P","Q","R","S","T","U","V","W","X","Y","Z">>
LowerAlpha == <<"a","b","c","d","e","f","g","h","i","j","k","l","m","n","o","p","q","r","s","t","u","v","w","x","y","z">>

\* str.lower() on one character
\* the lower-case letter of every upper-case letter
LowerMap ==
    "A" :> "a" @@ "B" :> "b" @@ "C" :> "c" @@ "D" :> "d" @@ "E" :> "e" @@
    "F" :> "f" @@ "G" :> "g" @@ "H" :> "h" @@ "I" :> "i" @@ "J" :> "j" @@
    "K" :> "k" @@ "L" :> "l" @@ "M" :> "m" @@ "N" :> "n" @@ "O" :> "o" @@
    "P" :> "p" @@ "Q" :> "q" @@ "R" :> "r" @@ "S" :> "s" @@ "T" :> "t" @@
    "U" :> "u" @@ "V" :> "v" @@ "W" :> "w" @@ "X" :> "x" @@ "Y" :> "y" @@
    "Z" :> "z"

LowerChar(c) == IF c \in DOMAIN LowerMap THEN LowerMap[c] ELSE c

\* str.lower()
Lower(s) == [k \in 1..Len(s) |-> LowerChar(s[k])]

\* `sub in s` on strings
Contains(s, sub) ==
    \/ sub = << >>
    \/ \E k \in 0..(Len(s) - Len(sub)) :
           s[k + 1] = sub[1] /\ SubSeq(s, k + 1, k + Len(sub)) = sub

\* the characters str.strip() removes
Whitespace == {" ", "\t"}

RECURSIVE LStrip(_)
LStrip(s) ==
    IF s # << >> /\ Head(s) \in Whitespace THEN LStrip(Tail(s)) ELSE s

RECURSIVE RStrip(_)
RStrip(s) ==
    IF s # << >> /\ s[Len(s)] \in Whitespace
    THEN RStrip(SubSeq(s, 1, Len(s) - 1))
    ELSE s

\* strip() that forgets the right-hand side
StripLeftOnly(s) == LStrip(s)

\* str.strip()
Strip(s) == RStrip(LStrip(s))

\* str.split(',')
RECURSIVE Split(_)
Split(s) ==
    IF \E k \in 1..Len(s) : s[k] = ","
    THEN LET k == CHOOSE j \in 1..Len(s) :
                      s[j] = "," /\ \A m \in 1..(j - 1) : s[m] # ","
         IN  <<SubSeq(s, 1, k - 1)>> \o Split(SubSeq(s, k + 1, Len(s)))
    ELSE <<s>>

\* ', '.join(list)
RECURSIVE Join(_)
Join(list) ==
    IF list = << >> THEN << >>
    ELSE IF Len(list) = 1 THEN list[1]
    ELSE list[1] \o <<","," ">> \o Join(Tail(list))

\* seq[:n]
Take(seq, n) == SubSeq(seq, 1, IF Len(seq) < n THEN Len(seq) ELSE n)

\* dict.get(key, default)
Get(d, key, default) == IF key \in DOMAIN d THEN d[key] ELSE default

\* concatenation of a list of lists (list.extend in a loop)
RECURSIVE Flatten(_)
Flatten(lists) ==
    IF lists = << >> THEN << >> ELSE Head(lists) \o Flatten(Tail(lists))

---------------------------------------------------------------------------
(* Provider answers                                                        *)
(*   [kind |-> "exc",  exc |-> str]             the client call raised     *)
(*   [kind |-> "http", status |-> n, body |-> b] a response arrived        *)
(* A body is what response.json() makes of it:                             *)
(*   [json |-> "invalid"]          json() raises                           *)
(*   [json |-> "dict", v |-> d]    a JSON object                           *)
(*   [json |-> "list", v |-> l]    a JSON array                            *)

Exc(name) == [kind |-> "exc", exc |-> L(name)]
Http(status, body) == [kind |-> "http", status |-> status, body |-> body]
JsonDict(d) == [json |-> "dict", v |-> d]
JsonList(l) == [json |-> "list", v |-> l]
JsonInvalid == [json |-> "invalid"]

\* truth value of a module-level key: None and "" are false
Truthy(key) == key # None /\ key # << >>

---------------------------------------------------------------------------
(* industry_analysis_agent.py                                              *)

MAX_RETRIES == 3

\* iteration order of a Python set of str: fixed by the process's string
\* hash seed, arbitrary from one process to the next
HashOrders == <<
    <<"Artificial Intelligence", "Business Services", "Cloud Computing",
      "Edge Computing", "Financial Services", "Healthcare",
      "Investment Banking", "Technology">>,
    <<"Technology", "Investment Banking", "Healthcare",
      "Financial Services", "Edge Computing", "Cloud Computing",
      "Business Services", "Artificial Intelligence">> >>

HashSeeds == DOMAIN HashOrders

\* list(a_set)
ListOfSet(set, seed) ==
    LET In(x) == x \in set IN SelectSeq(HashOrders[seed], In)

\* the keywords looked for in the participants string as well
IndustrySetBoth(participants, context) ==
    LET context_lower == Lower(participants \o <<" ">> \o context)
        Has(kw) == Contains(context_lower, kw)
        found ==
            (IF Has(<<"a","i">>) \/ Has(<<"a","r","t","i","f","i","c","i","a","l"," ","i","n","t","e","l","l","i","g","e","n","c","e">>)
             THEN {"Artificial Intelligence"} ELSE {})
            \cup (IF Has(<<"c","l","o","u","d">>) THEN {"Cloud Computing"} ELSE {})
            \cup (IF Has(<<"e","d","g","e"," ","c","o","m","p","u","t","i","n","g">>) \/ Has(<<"e","d","g","e">>)
                  THEN {"Edge Computing"} ELSE {})
            \cup (IF Has(<<"t","e","c","h","n","o","l","o","g","y">>) \/ Has(<<"t","e","c","h">>)
                  THEN {"Technology"} ELSE {})
            \cup (IF Has(<<"i","n","v","e","s","t","m","e","n","t">>) THEN {"Investment Banking"} ELSE {})
            \cup (IF Has(<<"h","e","a","l","t","h","c","a","r","e">>) THEN {"Healthcare"} ELSE {})
            \cup (IF Has(<<"f","i","n","a","n","c","e">>) \/ Has(<<"f","i","n","a","n","c","i","a","l">>)
                  THEN {"Financial Services"} ELSE {})
    IN  IF found = {} THEN {"Technology", "Business Services"} ELSE found

\* the set extract_industries_from_context builds (lines 269-291)
IndustrySet(participants, context) ==
    LET context_lower == Lower(context)
        Has(kw) == Contains(context_lower, kw)
        found ==
            (IF Has(<<"a","i">>) \/ Has(<<"a","r","t","i","f","i","c","i","a","l"," ","i","n","t","e","l","l","i","g","e","n","c","e">>)
             THEN {"Artificial Intelligence"} ELSE {})
            \cup (IF Has(<<"c","l","o","u","d">>) THEN {"Cloud Computing"} ELSE {})
            \cup (IF Has(<<"e","d","g","e"," ","c","o","m","p","u","t","i","n","g">>) \/ Has(<<"e","d","g","e">>)
                  THEN {"Edge Computing"} ELSE {})
            \cup (IF Has(<<"t","e","c","h","n","o","l","o","g","y">>) \/ Has(<<"t","e","c","h">>)
                  THEN {"Technology"} ELSE {})
            \cup (IF Has(<<"i","n","v","e","s","t","m","e","n","t">>) THEN {"Investment Banking"} ELSE {})
            \cup (IF Has(<<"h","e","a","l","t","h","c","a","r","e">>) THEN {"Healthcare"} ELSE {})
            \cup (IF Has(<<"f","i","n","a","n","c","e">>) \/ Has(<<"f","i","n","a","n","c","i","a","l">>)
                  THEN {"Financial Services"} ELSE {})
    IN  IF found = {} THEN {"Technology", "Business Services"} ELSE found

\* the industries kept in a list, one entry per matching test: the first
\* industry comes twice
extract_industries_with_repeats(participants, context, seed) ==
    LET industries == ListOfSet(IndustrySet(participants, context), seed)
    IN  industries \o <<industries[1]>>

extract_industries_from_context(participants, context, seed) ==
    ListOfSet(IndustrySet(participants, context), seed)

trend_keywords == <<
    <<"a","r","t","i","f","i","c","i","a","l"," ","i","n","t","e","l","l","i","g","e","n","c","e">>, <<"m","a","c","h","i","n","e"," ","l","e","a","r","n","i","n","g">>, <<"a","u","t","o","m","a","t","i","o","n">>,
    <<"d","i","g","i","t","a","l"," ","t","r","a","n","s","f","o","r","m","a","t","i","o","n">>, <<"c","l","o","u","d"," ","c","o","m","p","u","t","i","n","g">>, <<"e","d","g","e"," ","c","o","m","p","u","t","i","n","g">>,
    <<"b","l","o","c","k","c","h","a","i","n">>, <<"c","y","b","e","r","s","e","c","u","r","i","t","y">>, <<"d","a","t","a"," ","a","n","a","l","y","t","i","c","s">>,
    <<"s","u","s","t","a","i","n","a","b","i","l","i","t","y">>, <<"r","e","m","o","t","e"," ","w","o","r","k">>, <<"h","y","b","r","i","d"," ","m","o","d","e","l","s">>,
    <<"c","u","s","t","o","m","e","r"," ","e","x","p","e","r","i","e","n","c","e">> >>

challenge_keywords == <<
    <<"r","e","g","u","l","a","t","i","o","n">>, <<"c","o","m","p","l","i","a","n","c","e">>, <<"c","o","m","p","e","t","i","t","i","o","n">>, <<"t","a","l","e","n","t"," ","s","h","o","r","t","a","g","e">>,
    <<"c","y","b","e","r","s","e","c","u","r","i","t","y">>, <<"c","o","s","t"," ","p","r","e","s","s","u","r","e">>, <<"m","a","r","k","e","t"," ","v","o","l","a","t","i","l","i","t","y">>,
    <<"s","u","p","p","l","y"," ","c","h","a","i","n">>, <<"i","n","f","l","a","t","i","o","n">>, <<"r","e","c","e","s","s","i","o","n">> >>

opportunity_keywords == <<
    <<"g","r","o","w","t","h">>, <<"e","x","p","a","n","s","i","o","n">>, <<"i","n","n","o","v","a","t","i","o","n">>, <<"p","a","r","t","n","e","r","s","h","i","p">>,
    <<"a","c","q","u","i","s","i","t","i","o","n">>, <<"i","n","v","e","s","t","m","e","n","t">>, <<"n","e","w"," ","m","a","r","k","e","t","s">>,
    <<"t","e","c","h","n","o","l","o","g","y"," ","a","d","o","p","t","i","o","n">>, <<"d","i","g","i","t","a","l"," ","t","r","a","n","s","f","o","r","m","a","t","i","o","n">>,
    <<"s","u","s","t","a","i","n","a","b","i","l","i","t","y">> >>

\* the matches in the order the keywords turn up in the text
KeywordMatchesByPosition(text, keywords, prefix, suffix) ==
    LET text_lower == Lower(text)
        found == {k \in DOMAIN keywords : Contains(text_lower, keywords[k])}
        At(k) == CHOOSE p \in 1..Len(text_lower) :
                     /\ SubSeq(text_lower, p, p + Len(keywords[k]) - 1)
                            = keywords[k]
                     /\ \A q \in 1..(p - 1) :
                            SubSeq(text_lower, q, q + Len(keywords[k]) - 1)
                                # keywords[k]
        Before(j, k) == At(j) < At(k) \/ (At(j) = At(k) /\ j < k)
        hits == [a \in 1..Cardinality(found) |->
                    CHOOSE k \in found :
                        Cardinality({j \in found : Before(j, k)}) = a - 1]
    IN  [a \in DOMAIN hits |-> prefix \o keywords[hits[a]] \o suffix]

\* for keyword in keywords: if keyword in text_lower: append(prefix keyword suffix)
KeywordMatches(text, keywords, prefix, suffix) ==
    LET text_lower == Lower(text)
        Hit(kw) == Contains(text_lower, kw)
        hits == SelectSeq(keywords, Hit)
    IN  [k \in 1..Len(hits) |-> prefix \o hits[k] \o suffix]

\* extract_trends_from_text returning trends instead of trends[:3]
extract_trends_untruncated(text) ==
    KeywordMatches(text, trend_keywords, L("Growing adoption of "), << >>)

extract_trends_from_text(text) ==
    Take(KeywordMatches(text, trend_keywords,
                        L("Growing adoption of "), << >>), 3)

extract_challenges_from_text(text) ==
    Take(KeywordMatches(text, challenge_keywords,
                        L("Managing "), L(" challenges")), 3)

extract_opportunities_from_text(text) ==
    Take(KeywordMatches(text, opportunity_keywords,
                        L("Leveraging "), L(" opportunities")), 3)

extract_competitors_from_text(text) ==
    <<L("Market incumbents"), L("Emerging disruptors"),
      L("International players")>>

extract_developments_from_text(text) ==
    <<L("New technology adoption accelerating"),
      L("Regulatory landscape evolving"),
      L("Market consolidation ongoing")>>

\* `if result.get("text")`
HasText(result) == "text" \in DOMAIN result /\ result.text # << >>

\* for result in results: if result.get("text"): out.extend(Extract(text))
ExtendFromResults(results, Extract(_)) ==
    Flatten([k \in 1..Len(results) |->
                IF HasText(results[k]) THEN Extract(results[k].text)
                ELSE << >>])

\* data.get("results", []) of a JSON object
ResultsOf(body) == Get(body.v, "results", << >>)

\* the statements of a search function's try block raise: the client call
\* raised, or status 200 came with a body that is not a JSON object
SearchRaises(resp) ==
    \/ resp.kind = "exc"
    \/ resp.kind = "http" /\ resp.status = 200 /\ resp.body.json # "dict"

\* search_industry_trends: the branch taken without the key
search_industry_trends_nokey(industry) ==
    [trends |-> <<L("AI integration in ") \o L(industry),
                  L("Digital transformation in ") \o L(industry),
                  L("Sustainability focus in ") \o L(industry)>>]

\* search_industry_trends scanning every result, not results[:5]
search_industry_trends_all(industry, resp) ==
    IF SearchRaises(resp)
    THEN [trends |-> <<L("Innovation focus in ") \o L(industry),
                       L("Market consolidation in ") \o L(industry)>>]
    ELSE IF resp.status = 200
    THEN [trends |-> Take(ExtendFromResults(ResultsOf(resp.body),
                                            extract_trends_from_text), 10)]
    ELSE [trends |-> <<L("Digital transformation in ") \o L(industry),
                       L("AI adoption in ") \o L(industry)>>]

\* search_industry_trends: the code after requests.post
search_industry_trends(industry, resp) ==
    IF SearchRaises(resp)
    THEN [trends |-> <<L("Innovation focus in ") \o L(industry),
                       L("Market consolidation in ") \o L(industry)>>]
    ELSE IF resp.status = 200
    THEN [trends |-> Take(ExtendFromResults(Take(ResultsOf(resp.body), 5),
                                            extract_trends_from_text), 10)]
    ELSE [trends |-> <<L("Digital transformation in ") \o L(industry),
                       L("AI adoption in ") \o L(industry)>>]

search_market_analysis_nokey(industry) ==
    [challenges |-> <<L("Regulatory compliance in ") \o L(industry),
                      L("Competition in ") \o L(industry)>>,
     opportunities |-> <<L("Technology integration in ") \o L(industry),
                         L("Market expansion in ") \o L(industry)>>,
     competitors |-> <<L("Major players in ") \o L(industry),
                       L("Emerging companies in ") \o L(industry)>>]

search_market_analysis(industry, resp) ==
    IF SearchRaises(resp)
    THEN [challenges |-> <<L("Industry disruption in ") \o L(industry)>>,
          opportunities |-> <<L("Technology adoption in ") \o L(industry)>>,
          competitors |-> <<L("Market leaders in ") \o L(industry)>>]
    ELSE IF resp.status = 200
    THEN LET results == ResultsOf(resp.body)
         IN  [challenges |->
                  Take(ExtendFromResults(results,
                                         extract_challenges_from_text), 8),
              opportunities |->
                  Take(ExtendFromResults(results,
                                         extract_opportunities_from_text), 8),
              competitors |->
                  Take(ExtendFromResults(results,
                                         extract_competitors_from_text), 6)]
    ELSE [challenges |-> <<L("Market volatility in ") \o L(industry),
                           L("Regulatory changes in ") \o L(industry)>>,
          opportunities |-> <<L("Digital innovation in ") \o L(industry),
                              L("Partnership opportunities in ") \o L(industry)>>,
          competitors |-> <<L("Established players in ") \o L(industry),
                            L("Disruptive startups in ") \o L(industry)>>]

search_recent_developments_nokey(industry) ==
    [developments |-> <<L("Recent innovation in ") \o L(industry),
                        L("New regulations affecting ") \o L(industry)>>]

search_recent_developments(industry, resp) ==
    IF SearchRaises(resp)
    THEN [developments |-> <<L("Ongoing changes in ") \o L(industry)>>]
    ELSE IF resp.status = 200
    THEN [developments |->
              Take(ExtendFromResults(ResultsOf(resp.body),
                                     extract_developments_from_text), 10)]
    ELSE [developments |-> <<L("Industry evolution in ") \o L(industry),
                             L("Market shifts in ") \o L(industry)>>]

generate_strategic_insights(trend_data, market_data) ==
    <<L("Market consolidation creating partnership opportunities"),
      L("Technology disruption requiring strategic adaptation"),
      L("Regulatory changes driving compliance innovation"),
      L("Customer expectations evolving rapidly")>>

assess_investment_outlook(trend_data, market_data) ==
    L("Positive with selective opportunities - focus on technology-enabled solutions and strategic partnerships")

identify_risk_factors(market_data) ==
    <<L("Regulatory uncertainty and compliance costs"),
      L("Intense competition and market saturation"),
      L("Technology disruption and obsolescence"),
      L("Economic volatility and market conditions")>>

\* the industry_analysis dict of lines 64-74
IndustryAnalysis(industry, trend_data, market_data, news_data) ==
    [industry_name |-> L(industry),
     current_trends |-> Get(trend_data, "trends", << >>),
     market_challenges |-> Get(market_data, "challenges", << >>),
     growth_opportunities |-> Get(market_data, "opportunities", << >>),
     recent_developments |-> Get(news_data, "developments", << >>),
     competitive_landscape |-> Get(market_data, "competitors", << >>),
     strategic_insights |-> generate_strategic_insights(trend_data, market_data),
     investment_outlook |-> assess_investment_outlook(trend_data, market_data),
     risk_factors |-> identify_risk_factors(market_data)]

generate_cross_industry_insights(analysis_results) ==
    <<L("AI and automation trends consistent across industries"),
      L("Sustainability becoming universal business imperative"),
      L("Digital transformation accelerating in all sectors"),
      L("Partnership models emerging as competitive advantage")>>

generate_industry_talking_points(analysis_results, context) ==
    <<L("Current market position and competitive advantages"),
      L("Technology adoption strategies and innovation roadmap"),
      L("Partnership opportunities and synergies"),
      L("Risk mitigation and market positioning"),
      L("Investment priorities and resource allocation")>>

generate_strategic_questions(analysis_results) ==
    <<L("How are you adapting to current industry disruptions?"),
      L("What partnership models are you exploring?"),
      L("Where do you see the biggest growth opportunities?"),
      L("How are you addressing regulatory and compliance challenges?"),
      L("What technology investments are driving your strategy?")>>

identify_collaboration_opportunities(analysis_results) ==
    <<L("Joint technology development and innovation"),
      L("Market expansion and customer acquisition"),
      L("Risk sharing and resource optimization"),
      L("Regulatory compliance and industry standards"),
      L("Talent development and knowledge sharing")>>

highlight_competitive_advantages(analysis_results) ==
    <<L("Technology leadership and innovation capabilities"),
      L("Market position and customer relationships"),
      L("Operational efficiency and cost structure"),
      L("Regulatory expertise and compliance track record"),
      L("Partnership network and ecosystem strength")>>

generate_positioning_advice(analysis_results, context) ==
    [differentiation_strategy |->
         L("Focus on unique technology capabilities and market expertise"),
     value_proposition |->
         L("Combine innovation with proven execution and market knowledge"),
     competitive_positioning |->
         L("Position as strategic partner rather than vendor"),
     messaging_framework |->
         L("Emphasize mutual benefit and long-term value creation")]

generate_risk_mitigation(analysis_results) ==
    <<L("Diversify market exposure and customer base"),
      L("Invest in compliance and regulatory capabilities"),
      L("Build strategic partnerships for market access"),
      L("Maintain technology leadership through continuous innovation"),
      L("Develop contingency plans for market disruptions")>>

generate_fallback_industry_analysis(participants, context) ==
    [executive_summary |->
         [note |-> L("Fallback analysis - limited real-time data"),
          industries_analyzed |-> <<L("Technology"), L("Business Services")>>,
          confidence_level |-> L("Medium (75%)")],
     general_trends |->
         <<L("Digital transformation acceleration"),
           L("AI and automation adoption"),
           L("Sustainability focus increasing"),
           L("Remote/hybrid work models")>>,
     common_challenges |->
         <<L("Talent acquisition and retention"),
           L("Regulatory compliance complexity"),
           L("Cybersecurity threats"),
           L("Market competition intensity")>>,
     opportunities |->
         <<L("Technology integration partnerships"),
           L("Market expansion opportunities"),
           L("Innovation collaboration potential"),
           L("Operational efficiency improvements")>>]

\* the final_analysis dict of lines 79-96
IndustryReport(industries, analysis_results, meeting_context) ==
    [executive_summary |->
         [industries_analyzed |-> [k \in 1..Len(industries) |-> L(industries[k])],
          analysis_depth |-> L("Comprehensive real-time analysis"),
          data_sources |-> L("EXA API, recent market reports, industry publications"),
          confidence_level |-> L("High (92%)")],
     industry_analyses |-> analysis_results,
     cross_industry_insights |-> generate_cross_industry_insights(analysis_results),
     meeting_specific_recommendations |->
         [talking_points |->
              generate_industry_talking_points(analysis_results, meeting_context),
          questions_to_ask |-> generate_strategic_questions(analysis_results),
          potential_collaboration_areas |->
              identify_collaboration_opportunities(analysis_results),
          competitive_advantages |->
              highlight_competitive_advantages(analysis_results)],
     market_positioning_advice |->
         generate_positioning_advice(analysis_results, meeting_context),
     risk_mitigation_strategies |-> generate_risk_mitigation(analysis_results)]

\* the dict returned by the handler's except clause (lines 103-106)
IndustryError(e, participants, meeting_context) ==
    [error |-> L("Industry analysis failed: ") \o e,
     fallback_analysis |->
         generate_fallback_industry_analysis(participants, meeting_context)]

---------------------------------------------------------------------------
(* Numbers and dates as text                                               *)

Digits == <<"0","1","2","3","4","5","6","7","8","9">>

\* str(n) for n >= 0
RECURSIVE DecStr(_)
DecStr(n) ==
    IF n < 10 THEN <<Digits[n + 1]>>
    ELSE DecStr(n \div 10) \o <<Digits[(n % 10) + 1]>>

\* a decimal field of strftime, zero-padded to width
RECURSIVE ZeroPad(_, _)
ZeroPad(s, width) ==
    IF Len(s) < width THEN ZeroPad(<<"0">> \o s, width) ELSE s

\* datetime.strftime("%Y-%m-%d")
StrftimeDate(now) ==
    ZeroPad(DecStr(now.year), 4) \o <<"-">> \o ZeroPad(DecStr(now.month), 2)
        \o <<"-">> \o ZeroPad(DecStr(now.day), 2)

\* datetime.strftime("%Y-%m-%d %H:%M:%S")
StrftimeDateTime(now) ==
    StrftimeDate(now) \o <<" ">> \o ZeroPad(DecStr(now.hour), 2)
        \o <<":">> \o ZeroPad(DecStr(now.minute), 2)
        \o <<":">> \o ZeroPad(DecStr(now.second), 2)

\* dict.update(other)
Update(d, other) ==
    [k \in DOMAIN d \cup DOMAIN other |->
        IF k \in DOMAIN other THEN other[k] ELSE d[k]]

---------------------------------------------------------------------------
(* reseach_agent.py                                                        *)

\* the comprehension with an `if p.strip()` filter
ParseParticipantsSkipBlank(participants) ==
    LET pieces == Split(participants)
    IN  SelectSeq([k \in 1..Len(pieces) |-> Strip(pieces[k])],
                  LAMBDA p : p # << >>)

\* participant_list = [name.strip() for name in participants.split(',')]
ParseParticipants(participants) ==
    LET pieces == Split(participants)
    IN  [k \in 1..Len(pieces) |-> Strip(pieces[k])]

\* the participant_data dict of lines 50-59
NewParticipantData(participant) ==
    [name |-> participant,
     professional_summary |-> << >>,
     experience |-> << >>,
     education |-> << >>,
     company_info |-> << >>,
     linkedin_profile |-> << >>,
     key_achievements |-> << >>,
     industry_connections |-> << >>]

\* search_queries of lines 63-68
SearchQueries(participant) ==
    <<participant \o <<" ","L","i","n","k","e","d","I","n"," ","p","r","o","f","i","l","e">>,
      participant \o <<" ","p","r","o","f","e","s","s","i","o","n","a","l"," ","e","x","p","e","r","i","e","n","c","e">>,
      participant \o <<" ","c","o","m","p","a","n","y"," ","b","a","c","k","g","r","o","u","n","d">>,
      participant \o <<" ","e","d","u","c","a","t","i","o","n"," ","b","a","c","k","g","r","o","u","n","d">>>>

\* participant_data.update({...}) of lines 88-96, the branch without the key
PlaceholderData(participant_data, participant) ==
    Update(participant_data,
        [professional_summary |->
             L("Professional research needed for ") \o participant,
         experience |->
             <<L("Experience research required for ") \o participant>>,
         education |->
             <<L("Education background research needed for ") \o participant>>,
         company_info |->
             L("Company information research required for ") \o participant,
         linkedin_profile |->
             L("LinkedIn profile research needed for ") \o participant,
         key_achievements |->
             <<L("Achievement research required for ") \o participant>>,
         industry_connections |->
             <<L("Network research needed for ") \o participant>>])

\* `"organic" in search_result`, and the list it then iterates
Organic(search_result) ==
    IF search_result.json = "dict" /\ "organic" \in DOMAIN search_result.v
    THEN search_result.v.organic
    ELSE << >>

\* f"{prefix}{result.get('title', 'N/A')}{sep}{result.get('snippet', 'N/A')}"
TitleSnippet(prefix, result, sep) ==
    prefix \o Get(result, "title", L("N/A")) \o sep
           \o Get(result, "snippet", L("N/A"))

\* any(keyword in result.get("snippet", "").lower() for keyword in keywords)
SnippetHas(result, keywords) ==
    \E k \in 1..Len(keywords) :
        Contains(Lower(Get(result, "snippet", << >>)), keywords[k])

extract_linkedin_info(search_result) ==
    LET IsProfile(result) ==
            Contains(Get(result, "link", << >>), <<"l","i","n","k","e","d","i","n",".","c","o","m">>)
        hits == SelectSeq(Organic(search_result), IsProfile)
    IN  IF hits # << >>
        THEN TitleSnippet(L("LinkedIn Profile: "), hits[1], L(" - "))
        ELSE L("LinkedIn profile information not found")

experience_keywords ==
    <<<<"e","x","p","e","r","i","e","n","c","e">>, <<"w","o","r","k","e","d">>, <<"p","o","s","i","t","i","o","n">>, <<"r","o","l","e">>>>

\* extract_experience_info returning experience_info[-3:]
extract_experience_info_last(search_result) ==
    LET Hit(result) == SnippetHas(result, experience_keywords)
        hits == SelectSeq(Organic(search_result), Hit)
        all == [k \in 1..Len(hits) |-> TitleSnippet(<< >>, hits[k], L(": "))]
    IN  SubSeq(all, IF Len(all) > 3 THEN Len(all) - 2 ELSE 1, Len(all))

extract_experience_info(search_result) ==
    LET Hit(result) == SnippetHas(result, experience_keywords)
        hits == SelectSeq(Organic(search_result), Hit)
    IN  Take([k \in 1..Len(hits) |-> TitleSnippet(<< >>, hits[k], L(": "))], 3)

education_keywords ==
    <<<<"e","d","u","c","a","t","i","o","n">>, <<"u","n","i","v","e","r","s","i","t","y">>, <<"d","e","g","r","e","e">>, <<"s","t","u","d","i","e","d">>>>

extract_education_info(search_result) ==
    LET Hit(result) == SnippetHas(result, education_keywords)
        hits == SelectSeq(Organic(search_result), Hit)
    IN  Take([k \in 1..Len(hits) |-> TitleSnippet(<< >>, hits[k], L(": "))], 3)

company_keywords ==
    <<<<"c","o","m","p","a","n","y">>, <<"c","o","r","p","o","r","a","t","i","o","n">>, <<"o","r","g","a","n","i","z","a","t","i","o","n">>>>

extract_company_info(search_result) ==
    LET Hit(result) == SnippetHas(result, company_keywords)
        hits == SelectSeq(Organic(search_result), Hit)
    IN  IF hits # << >>
        THEN TitleSnippet(L("Company Info: "), hits[1], L(" - "))
        ELSE L("Company information not found")

\* perform_serper_search raises: requests.post raised, or response.json()
\* did; the status code is not looked at
perform_serper_search_raises(resp) ==
    \/ resp.kind = "exc"
    \/ resp.kind = "http" /\ resp.body.json = "invalid"

\* the if/elif chain of lines 74-81 on a search result
StoreSearchResult(participant_data, query, search_result) ==
    IF Contains(query, <<"L","i","n","k","e","d","I","n">>)
    THEN [participant_data EXCEPT
             !.linkedin_profile = extract_linkedin_info(search_result)]
    ELSE IF Contains(query, <<"e","x","p","e","r","i","e","n","c","e">>)
    THEN [participant_data EXCEPT
             !.experience = extract_experience_info(search_result)]
    ELSE IF Contains(query, <<"e","d","u","c","a","t","i","o","n">>)
    THEN [participant_data EXCEPT
             !.education = extract_education_info(search_result)]
    ELSE IF Contains(query, <<"c","o","m","p","a","n","y">>)
    THEN [participant_data EXCEPT
             !.company_info = extract_company_info(search_result)]
    ELSE participant_data

\* one pass of the body of `for query in search_queries` (lines 70-84)
SearchStep(participant_data, query, resp) ==
    IF perform_serper_search_raises(resp)
    THEN participant_data
    ELSE StoreSearchResult(participant_data, query, resp.body)

\* the report dict of lines 101-111
ResearchReport(participant_list, research_results, meeting_context) ==
    [meeting_context |-> meeting_context,
     participants_researched |-> Len(participant_list),
     research_findings |-> research_results,
     summary |-> L("Research completed for ")
                     \o DecStr(Len(participant_list))
                     \o L(" participants: ") \o Join(participant_list),
     recommendations |->
         <<L("Review each participant's professional background before the meeting"),
           L("Identify common interests and professional connections"),
           L("Prepare relevant talking points based on their experience"),
           L("Consider their industry expertise when planning discussion topics")>>]

\* the dict returned by the handler's except clause (lines 119-123)
ResearchError(e, participants, meeting_context) ==
    [error |-> L("Research agent encountered an error: ") \o e,
     participants |-> participants,
     context |-> meeting_context]

---------------------------------------------------------------------------
(* LLM client answers: [kind |-> "exc"] when the client call raised (the   *)
(* SDKs raise on a failed request), else [kind |-> "llm", parts |-> texts] *)
(* where reading the text of an answer without parts raises.               *)

Llm(parts) == [kind |-> "llm", parts |-> parts]

LlmRaises(resp) == resp.kind = "exc" \/ resp.parts = << >>

LlmError(resp) == IF resp.kind = "exc" THEN resp.exc ELSE L("IndexError")

---------------------------------------------------------------------------
(* meeting_stratergy_agent.py                                              *)

generate_value_propositions(objective) ==
    <<L("Direct value: Achievement of ") \o objective,
      L("Long-term partnership and collaboration opportunities"),
      L("Market advantage and competitive positioning"),
      L("Risk mitigation and shared expertise"),
      L("Scalability and growth potential")>>

generate_potential_objections(context, objective) ==
    <<[objection |-> L("Timeline concerns"),
       response |-> L("We can discuss flexible timeline options and phased implementation")],
      [objection |-> L("Budget or resource constraints"),
       response |-> L("Let's explore cost-effective approaches and ROI projections")],
      [objection |-> L("Risk concerns"),
       response |-> L("We can address risk mitigation strategies and pilot programs")]>>

identify_common_ground(research, industry) ==
    <<L("Shared industry challenges and opportunities"),
      L("Mutual interest in market growth"),
      L("Common goals for efficiency and innovation"),
      L("Shared commitment to quality and excellence"),
      L("Interest in sustainable business practices")>>

generate_strategy_components(context, objective, research, industry) ==
    [talking_points |->
         <<L("Opening discussion about ") \o context,
           L("Alignment on ") \o objective,
           L("Mutual benefits and value proposition"),
           L("Timeline and implementation discussion"),
           L("Resource requirements and commitments"),
           L("Success metrics and measurement"),
           L("Risk mitigation and contingencies")>>,
     strategic_questions |->
         <<L("How does this align with your current priorities regarding ")
               \o context \o L("?"),
           L("What are the key success metrics you'd like to see?"),
           L("What potential challenges do you foresee?"),
           L("How can we ensure mutual value creation?"),
           L("What would an ideal outcome look like for you?"),
           L("What timeline are you working with?"),
           L("Who else should be involved in this decision?")>>,
     conversation_starters |->
         <<L("I'd love to hear your perspective on the current market situation"),
           L("What trends are you seeing in your industry?"),
           L("How has your experience been with similar initiatives?"),
           L("What's driving your interest in this area?"),
           L("What challenges are you currently facing?")>>,
     value_propositions |-> generate_value_propositions(objective),
     potential_objections |-> generate_potential_objections(context, objective),
     common_ground_areas |-> identify_common_ground(research, industry)]

\* the model's text stored as the conversation starters
enhance_strategy_in_place(context, objective, components, resp) ==
    IF LlmRaises(resp)
    THEN [ai_enhanced_content |-> L("AI enhancement not available"),
          ai_generated |-> FALSE,
          error |-> LlmError(resp)]
    ELSE [conversation_starters |-> <<resp.parts[1]>>,
          ai_generated |-> TRUE]

\* enhance_strategy_with_ai: the code after the prompt is built
enhance_strategy_with_ai(context, objective, components, resp) ==
    IF LlmRaises(resp)
    THEN [ai_enhanced_content |-> L("AI enhancement not available"),
          ai_generated |-> FALSE,
          error |-> LlmError(resp)]
    ELSE [ai_enhanced_content |-> resp.parts[1],
          ai_generated |-> TRUE]

generate_meeting_flow(context, objective) ==
    <<L("1. Opening and rapport building (5-10 minutes)"),
      L("2. Context setting and objective alignment (10-15 minutes)"),
      L("3. Main discussion and exploration (20-30 minutes)"),
      L("4. Address concerns and objections (10-15 minutes)"),
      L("5. Next steps and follow-up (5-10 minutes)")>>

generate_contingency_plans ==
    [if_discussion_stalls |->
         <<L("Use prepared conversation starters"),
           L("Ask open-ended questions about their challenges"),
           L("Share relevant industry insights")>>,
     if_objections_arise |->
         <<L("Acknowledge concerns respectfully"),
           L("Ask clarifying questions to understand root issues"),
           L("Provide evidence-based responses")>>,
     if_time_runs_short |->
         <<L("Focus on most critical priorities"),
           L("Schedule dedicated follow-up meeting"),
           L("Provide summary of key points")>>]

\* the report dict of lines 69-97
StrategyReport(meeting_context, meeting_objective, strategy_components) ==
    [meeting_context |-> meeting_context,
     meeting_objective |-> meeting_objective,
     strategy_components |-> strategy_components,
     meeting_flow_suggestions |->
         generate_meeting_flow(meeting_context, meeting_objective),
     key_success_factors |->
         <<L("Active listening and engagement"),
           L("Clear articulation of value proposition"),
           L("Addressing concerns proactively"),
           L("Establishing clear next steps"),
           L("Building genuine rapport")>>,
     contingency_plans |-> generate_contingency_plans,
     pre_meeting_checklist |->
         <<L("Review participant backgrounds thoroughly"),
           L("Practice key talking points"),
           L("Prepare supporting materials"),
           L("Anticipate potential objections"),
           L("Set up meeting logistics")>>,
     success_metrics |->
         <<L("Clear understanding of all parties' positions"),
           L("Agreement on next steps and timeline"),
           L("Positive rapport established"),
           L("Objective progress made"),
           L("Follow-up actions defined")>>,
     summary |-> L("Strategic meeting plan developed for: ")
                     \o meeting_objective]

\* the dict returned by the handler's except clause (lines 104-108)
StrategyError(e, meeting_context, meeting_objective) ==
    [error |-> L("Meeting strategy agent encountered an error: ") \o e,
     context |-> meeting_context,
     objective |-> meeting_objective]

---------------------------------------------------------------------------
(* summary_briefing_agent.py                                               *)

generate_executive_summary(context, objective, research, industry) ==
    [meeting_overview |-> context,
     primary_objective |-> objective,
     preparation_scope |-> L("Comprehensive participant research, industry analysis, and strategic planning"),
     key_participants |-> L("Detailed backgrounds researched and analyzed"),
     industry_context |-> L("Current trends and opportunities identified"),
     strategic_approach |-> L("Talking points, questions, and negotiation angles prepared"),
     expected_outcomes |-> L("Successful achievement of meeting objectives with clear next steps"),
     preparation_confidence |-> L("High - All critical areas analyzed and prepared")]

generate_participant_profiles(research) ==
    [section_title |-> L("PARTICIPANT PROFILES & BACKGROUNDS"),
     profile_summary |-> L("Detailed professional backgrounds of all meeting participants"),
     key_areas_covered |->
         <<L("Professional experience and career progression"),
           L("Educational background and qualifications"),
           L("Current roles and responsibilities"),
           L("Company information and industry position"),
           L("LinkedIn profiles and professional networks"),
           L("Notable achievements and recognitions")>>,
     research_quality |-> L("Comprehensive LinkedIn and professional research completed"),
     strategic_value |-> L("Enables personalized rapport building and targeted discussions")]

generate_industry_trends_section(industry) ==
    [section_title |-> L("INDUSTRY TRENDS & MARKET ANALYSIS"),
     analysis_scope |-> L("Current market conditions, trends, and strategic opportunities"),
     key_areas_analyzed |->
         <<L("Current market landscape and conditions"),
           L("Emerging trends and growth opportunities"),
           L("Industry challenges and competitive pressures"),
           L("Regulatory environment and compliance requirements"),
           L("Technology disruptions and innovation trends"),
           L("Market consolidation and partnership opportunities")>>,
     strategic_implications |->
         <<L("Opportunities for market positioning"),
           L("Potential collaboration areas"),
           L("Risk factors to address"),
           L("Innovation and technology adoption strategies")>>]

generate_talking_points_section(strategy) ==
    [section_title |-> L("STRATEGIC TALKING POINTS & DISCUSSION FRAMEWORK"),
     framework_overview |-> L("Structured approach to guide productive meeting discussions"),
     key_components |->
         <<L("Opening statements and rapport building"),
           L("Value proposition articulation"),
           L("Strategic questions to guide discussion"),
           L("Conversation starters and engagement techniques"),
           L("Negotiation angles and positioning"),
           L("Objection handling and response strategies"),
           L("Next steps and follow-up planning")>>,
     meeting_flow_guidance |->
         <<L("How to open the meeting effectively"),
           L("Key messages to communicate"),
           L("Questions to ask for engagement"),
           L("How to handle potential objections"),
           L("How to close with clear next steps")>>]

generate_strategic_recommendations(context, objective, research, industry, strategy) ==
    [section_title |-> L("STRATEGIC RECOMMENDATIONS & ACTION PLAN"),
     pre_meeting_recommendations |->
         <<L("Complete final review of all participant profiles"),
           L("Practice key talking points and value propositions"),
           L("Prepare supporting materials and documentation"),
           L("Confirm meeting logistics and technical setup"),
           L("Review industry trends for relevant discussion points")>>,
     during_meeting_tactics |->
         <<L("Lead with rapport building and relationship focus"),
           L("Listen actively and ask clarifying questions"),
           L("Present information clearly and concisely"),
           L("Address concerns promptly and thoroughly"),
           L("Use industry knowledge to demonstrate expertise"),
           L("Focus on mutual value and win-win outcomes")>>,
     post_meeting_actions |->
         <<L("Send follow-up summary within 24 hours"),
           L("Schedule next steps and milestone meetings"),
           L("Provide promised information or resources"),
           L("Update internal records and CRM systems"),
           L("Plan ongoing relationship maintenance")>>,
     success_metrics |->
         <<L("Clear understanding achieved by all parties"),
           L("Agreement on next steps and timeline"),
           L("Positive rapport and relationship established"),
           L("Measurable progress toward objectives"),
           L("Follow-up meetings or actions scheduled")>>]

\* generate_ai_briefing_enhancement: the code after the prompt is built
generate_ai_briefing_enhancement(context, objective, resp) ==
    IF LlmRaises(resp)
    THEN L("AI enhancement not available: ") \o LlmError(resp)
    ELSE resp.parts[1]

\* each entry starts with a check-box glyph in the source, written [] here
generate_preparation_checklist ==
    <<L("[] Review complete briefing document (15-20 minutes)"),
      L("[] Study participant profiles and backgrounds"),
      L("[] Review industry trends and market analysis"),
      L("[] Practice key talking points and value propositions"),
      L("[] Prepare responses to potential objections"),
      L("[] Gather supporting materials and documentation"),
      L("[] Confirm meeting logistics (time, location, technology)"),
      L("[] Prepare follow-up communication templates"),
      L("[] Set meeting objectives and success criteria"),
      L("[] Plan post-meeting action items and timeline")>>

generate_quick_reference_guide(strategy) ==
    [key_talking_points |->
         <<L("Primary value proposition"),
           L("Mutual benefit opportunities"),
           L("Strategic partnership potential")>>,
     strategic_questions |->
         <<L("What are your current priorities in this area?"),
           L("How do you measure success for initiatives like this?"),
           L("What challenges are you facing that we might help address?")>>,
     conversation_starters |->
         <<L("Industry trend observations"),
           L("Shared connection references"),
           L("Recent market developments")>>]

generate_meeting_flow_template ==
    <<L("0-5 min: Welcome and introductions"),
      L("5-15 min: Context setting and objective alignment"),
      L("15-35 min: Main discussion and value exploration"),
      L("35-45 min: Address questions and concerns"),
      L("45-50 min: Next steps and follow-up planning"),
      L("50-60 min: Meeting wrap-up and relationship building")>>

generate_follow_up_template ==
    [subject_line |-> L("Thank you - Next steps from our meeting"),
     opening |-> L("Thank you for the productive discussion today..."),
     summary_section |-> L("Key points discussed and agreements reached"),
     next_steps_section |-> L("Specific actions, owners, and timelines"),
     resources_section |-> L("Promised materials and additional information"),
     closing |-> L("Looking forward to our continued collaboration...")]

calculate_briefing_quality_score(research, industry, strategy) ==
    [overall_score |-> L("95/100"),
     research_completeness |-> L("Excellent"),
     industry_analysis_depth |-> L("Comprehensive"),
     strategic_preparation |-> L("Thorough"),
     readiness_level |-> L("Fully Prepared")]

\* the briefing_document dict of lines 53-82
BriefingDocument(briefing_timestamp, a) ==
    [briefing_header |->
         [title |-> L("COMPREHENSIVE MEETING PREPARATION BRIEFING"),
          generated_at |-> briefing_timestamp,
          meeting_context |-> a.meeting_context,
          meeting_objective |-> a.meeting_objective,
          preparation_status |-> L("COMPLETE")],
     section_1_executive_summary |->
         generate_executive_summary(a.meeting_context, a.meeting_objective,
                                    a.research_findings, a.industry_analysis),
     section_2_participant_profiles |->
         generate_participant_profiles(a.research_findings),
     section_3_industry_analysis |->
         generate_industry_trends_section(a.industry_analysis),
     section_4_strategic_talking_points |->
         generate_talking_points_section(a.meeting_strategy),
     section_5_strategic_recommendations |->
         generate_strategic_recommendations(
             a.meeting_context, a.meeting_objective, a.research_findings,
             a.industry_analysis, a.meeting_strategy),
     supplementary_materials |->
         [preparation_checklist |-> generate_preparation_checklist,
          quick_reference_guide |->
              generate_quick_reference_guide(a.meeting_strategy),
          meeting_flow_template |-> generate_meeting_flow_template,
          follow_up_template |-> generate_follow_up_template]]

\* briefing_document["supplementary_materials"] = {"ai_enhanced_insights": ...}
WithOnlyAiInsights(briefing_document, ai_enhanced_content) ==
    [briefing_document EXCEPT
        !.supplementary_materials =
            [ai_enhanced_insights |-> ai_enhanced_content]]

\* briefing_document["supplementary_materials"]["ai_enhanced_insights"] = ...
WithAiInsights(briefing_document, ai_enhanced_content) ==
    [briefing_document EXCEPT
        !.supplementary_materials =
            Update(@, [ai_enhanced_insights |-> ai_enhanced_content])]

\* the final_report dict of lines 92-112
BriefingReport(briefing_document, a) ==
    [briefing_document |-> briefing_document,
     immediate_actions |->
         <<L("Review this briefing document thoroughly (15-20 minutes)"),
           L("Practice key talking points and responses (10-15 minutes)"),
           L("Gather any additional supporting materials mentioned"),
           L("Confirm meeting logistics and technical setup"),
           L("Prepare follow-up communication templates")>>,
     success_indicators |->
         <<L("Clear understanding of participant backgrounds"),
           L("Confidence in discussing industry trends"),
           L("Prepared responses to likely questions"),
           L("Defined next steps and follow-up plan"),
           L("Strong rapport building strategy")>>,
     briefing_quality_score |->
         calculate_briefing_quality_score(
             a.research_findings, a.industry_analysis, a.meeting_strategy),
     summary |-> L("Comprehensive 5-part meeting briefing compiled for: ")
                     \o a.meeting_objective]

\* the dict returned by the handler's except clause (lines 119-123)
BriefingError(e, meeting_context, meeting_objective) ==
    [error |-> L("Summary and briefing agent encountered an error: ") \o e,
     context |-> meeting_context,
     objective |-> meeting_objective]

---------------------------------------------------------------------------
(* get_weather_agent/main.py and get_current_date_agent/main.py            *)

\* response.json()["forecast"]["forecastday"][0]["day"] raises
WeatherRaises(resp) ==
    \/ resp.kind = "exc"
    \/ resp.body.json # "dict"
    \/ "forecast" \notin DOMAIN resp.body.v
    \/ "forecastday" \notin DOMAIN resp.body.v.forecast
    \/ resp.body.v.forecast.forecastday = << >>
    \/ "day" \notin DOMAIN resp.body.v.forecast.forecastday[1]

\* the exception that line 28 (or requests.get) raises
WeatherError(resp) ==
    IF resp.kind = "exc" THEN resp.exc
    ELSE IF resp.body.json = "invalid" THEN L("JSONDecodeError")
    ELSE IF resp.body.json = "list" THEN L("TypeError")
    ELSE IF "forecast" \notin DOMAIN resp.body.v THEN L("KeyError")
    ELSE IF "forecastday" \notin DOMAIN resp.body.v.forecast THEN L("KeyError")
    ELSE IF resp.body.v.forecast.forecastday = << >> THEN L("IndexError")
    ELSE L("KeyError")

\* get_weather reading forecastday[-1] in place of forecastday[0]
WeatherReportLast(resp) ==
    LET days == resp.body.v.forecast.forecastday
    IN  [weather_forecast |-> days[Len(days)].day]

\* the dict get_weather returns (line 28)
WeatherReport(resp) ==
    [weather_forecast |-> resp.body.v.forecast.forecastday[1].day]

\* f"{now.year}-{now.month}-{now.day}" in place of strftime
CurrentDateUnpadded(now) ==
    DecStr(now.year) \o <<"-">> \o DecStr(now.month) \o <<"-">>
        \o DecStr(now.day)

\* the value get_current_date returns (line 14)
CurrentDate(now) == StrftimeDate(now)

---------------------------------------------------------------------------
(* The agent process                                                       *)

Industry == "analyze_meeting_industry_trends"
Research == "research_meeting_participants"
Strategy == "develop_meeting_strategy"
Briefing == "compile_meeting_briefing"
Weather  == "get_weather"
Date     == "get_current_date"

Handlers == {Industry, Research, Strategy, Briefing, Weather, Date}

\* the handlers whose body is one try/except Exception
HasTry(h) == h \in {Industry, Research, Strategy, Briefing}

\* os.environ.get(...) of the key the agent reads at import
KeyValues == {None, <<"s","k","-","l","i","v","e">>}

\* the module-level names after import: the handler the process binds, the
\* API key it read (EXA_API_KEY, SERPER_API_KEY, GOOGLE_API_KEY with the
\* client built from it, REQUEST_KEY; the date agent reads none), and the
\* string hash seed of the interpreter (only the industry agent iterates
\* a set, so only its processes are told apart by the seed)
Modules ==
    {[handler |-> Industry, key |-> k, seed |-> s] :
        k \in KeyValues, s \in HashSeeds}
    \cup {[handler |-> h, key |-> k, seed |-> 1] :
            h \in {Research, Strategy, Briefing, Weather}, k \in KeyValues}
    \cup {[handler |-> Date, key |-> None, seed |-> 1]}

---------------------------------------------------------------------------
(* Inputs the runtime delivers and values the environment supplies         *)

IndustryContexts ==
    {<< >>, <<"C","l","o","u","d"," ","A","I">>, <<"F","i","n","T","e","c","h">>, <<"p","l","a","n","t"," ","m","a","i","n","t","e","n","a","n","c","e">>}

ArgsOf(h) ==
    CASE h = Industry ->
            {[participants |-> p, meeting_context |-> c] :
                p \in {<<"D","a","n","a"," ","(","A","c","m","e"," ","H","e","a","l","t","h","c","a","r","e",")">>}, c \in IndustryContexts}
      [] h = Research ->
            {[participants |-> p, meeting_context |-> c] :
                p \in {<<"A","l",","," ","B","o">>, <<"A","l">>}, c \in {<<"Q","3"," ","s","y","n","c">>}}
      [] h = Strategy ->
            {[meeting_context |-> c, meeting_objective |-> o,
              research_data |-> r, industry_analysis |-> a] :
                c \in {<<"Q","3"," ","s","y","n","c">>}, o \in {<<"r","e","n","e","w","a","l">>},
                r \in {<< >>, <<"A","l",":"," ","C","T","O">>}, a \in {<< >>}}
      [] h = Briefing ->
            {[meeting_context |-> c, meeting_objective |-> o,
              research_findings |-> r, industry_analysis |-> a,
              meeting_strategy |-> s] :
                c \in {<<"Q","3"," ","s","y","n","c">>}, o \in {<<"r","e","n","e","w","a","l">>},
                r \in {<< >>, <<"A","l",":"," ","C","T","O">>}, a \in {<< >>},
                s \in {<< >>}}
      [] h = Weather ->
            {[city_name |-> c, date |-> d] :
                c \in {<<"P","a","r","i","s">>, <<"O","s","l","o">>}, d \in {<<"2","0","2","4","-","0","7","-","0","1">>}}
      [] h = Date -> {[agent_context |-> L("context")]}

\* participants strings of the parsing study: every string of at most MaxLen
\* characters over two letters, the blank and the comma, and the example
\* of the specification
ParseAlphabet == {"A", "b", " ", ","}

ParseExample == <<"A","l","i","c","e",","," ","B","o","b"," ",",","C","a","r","o","l">>

ParseArgs ==
    {[participants |-> p, meeting_context |-> <<"Q","3"," ","s","y","n","c">>] :
        p \in UNION {[1..n -> ParseAlphabet] : n \in 0..MaxLen}
               \cup {ParseExample}}

\* readings of datetime.now()
Nows ==
    {[year |-> 2024, month |-> 7, day |-> 1,
      hour |-> 9, minute |-> 5, second |-> 0],
     [year |-> 2025, month |-> 12, day |-> 31,
      hour |-> 23, minute |-> 59, second |-> 59]}

ExaText ==
    <<"C","l","o","u","d"," ","C","o","m","p","u","t","i","n","g"," ","a","n","d"," ","A","r","t","i","f","i","c","i","a","l"," ","I","n","t","e","l","l","i","g","e","n","c","e"," ","d","r","i","v","e"," ","G","r","o","w","t","h"," ","d","e","s","p","i","t","e"," ","R","e","g","u","l","a","t","i","o","n">>

ExaHits == JsonDict([results |-> <<[text |-> ExaText], [title |-> L("untitled")]>>])
ExaEmpty == JsonDict([message |-> L("no results")])

SerperHits ==
    JsonDict([organic |->
        <<[link |-> <<"h","t","t","p","s",":","/","/","w","w","w",".","l","i","n","k","e","d","i","n",".","c","o","m","/","i","n","/","a","l">>,
           title |-> L("Al - CTO"),
           snippet |-> <<"W","o","r","k","e","d"," ","a","t"," ","A","c","m","e"," ","C","o","m","p","a","n","y",";"," ","D","e","g","r","e","e"," ","f","r","o","m"," ","M","I","T">>]>>])
SerperDenied == JsonDict([message |-> L("Unauthorized"), statusCode |-> 403])

WeatherDay == [maxtemp_c |-> 21, condition |-> [text |-> L("Sunny")]]
WeatherNight == [maxtemp_c |-> 12, condition |-> [text |-> L("Clear")]]
WeatherHits ==
    JsonDict([forecast |->
        [forecastday |-> <<[day |-> WeatherDay], [day |-> WeatherNight]>>]])
WeatherDenied == JsonDict([error |-> [code |-> 2006]])
WeatherNoDays == JsonDict([forecast |-> [forecastday |-> << >>]])

\* the answer of a provider that works
Nominal(call) ==
    CASE call.provider = "exa" -> Http(200, ExaHits)
      [] call.provider = "serper" -> Http(200, SerperHits)
      [] call.provider = "llm" -> Llm(<<L("Three insights ...")>>)
      [] call.provider = "weatherapi" -> Http(200, WeatherHits)

\* every answer a provider may give to a call
Responses(call) ==
    {Nominal(call)} \cup
    CASE call.provider = "exa" ->
            {Http(200, ExaEmpty), Http(200, JsonList(<< >>)),
             Http(500, ExaHits), Exc("ReadTimeout")}
      [] call.provider = "serper" ->
            {Http(403, SerperDenied), Http(500, SerperHits),
             Http(502, JsonInvalid), Exc("ConnectionError")}
      [] call.provider = "llm" ->
            {Llm(<< >>), Exc("ResourceExhausted")}
      [] call.provider = "weatherapi" ->
            {Http(401, WeatherDenied), Http(200, WeatherNoDays),
             Http(200, JsonInvalid), Exc("ConnectionError")}

\* the outbound call got no usable answer: it raised or its status is not 200
Failed(resp) ==
    \/ resp.kind = "exc"
    \/ resp.kind = "http" /\ resp.status # 200
    \/ resp.kind = "llm" /\ resp.parts = << >>

---------------------------------------------------------------------------
(* The handlers as sequences of sub-calls                                  *)

\* the market search moved in front of the trends search
IndustryCallsSwapped(industry, k) ==
    <<[fn |-> "search_market_analysis", provider |-> "exa",
       subject |-> industry, step |-> 3 * (k - 1) + 1],
      [fn |-> "search_industry_trends", provider |-> "exa",
       subject |-> industry, step |-> 3 * (k - 1) + 2],
      [fn |-> "search_recent_developments", provider |-> "exa",
       subject |-> industry, step |-> 3 * (k - 1) + 3]>>

\* the three awaits of one pass of `for industry in industries` (lines 52-62)
IndustryCalls(industry, k) ==
    <<[fn |-> "search_industry_trends", provider |-> "exa",
       subject |-> industry, step |-> 3 * (k - 1) + 1],
      [fn |-> "search_market_analysis", provider |-> "exa",
       subject |-> industry, step |-> 3 * (k - 1) + 2],
      [fn |-> "search_recent_developments", provider |-> "exa",
       subject |-> industry, step |-> 3 * (k - 1) + 3]>>

\* one pass of `for participant in participant_list` (lines 47-98): four
\* searches with the key, the placeholder branch without
ParticipantCalls(participant, k, key) ==
    IF Truthy(key)
    THEN [q \in 1..4 |->
            [fn |-> "perform_serper_search", provider |-> "serper",
             subject |-> participant, query |-> SearchQueries(participant)[q],
             q |-> q, step |-> 4 * (k - 1) + q]]
    ELSE <<[fn |-> "placeholder", provider |-> "none",
            subject |-> participant, step |-> k]>>

\* the sub-calls the handler goes through, in program order
Plan(m, args) ==
    CASE m.handler = Industry ->
            LET industries == extract_industries_from_context(
                                  args.participants, args.meeting_context, m.seed)
            IN  Flatten([k \in 1..Len(industries) |->
                            IndustryCalls(industries[k], k)])
      [] m.handler = Research ->
            LET participant_list == ParseParticipants(args.participants)
            IN  Flatten([k \in 1..Len(participant_list) |->
                            ParticipantCalls(participant_list[k], k, m.key)])
      [] m.handler = Strategy ->
            IF Truthy(m.key)
            THEN <<[fn |-> "enhance_strategy_with_ai", provider |-> "llm",
                    step |-> 1]>>
            ELSE << >>
      [] m.handler = Briefing ->
            IF Truthy(m.key)
            THEN <<[fn |-> "generate_ai_briefing_enhancement",
                    provider |-> "llm", step |-> 1]>>
            ELSE << >>
      [] m.handler = Weather ->
            <<[fn |-> "requests.get", provider |-> "weatherapi", step |-> 1]>>
      [] m.handler = Date -> << >>

\* the sub-call sends a request: the search functions of the industry agent
\* return before requests.post without the key, get_weather sends with
\* whatever REQUEST_KEY is
SendsRequest(m, call) ==
    CASE call.provider = "exa" -> Truthy(m.key)
      [] call.provider = "none" -> FALSE
      [] OTHER -> TRUE

\* the handler's locals before its first sub-call
InitAcc(m, args, now) ==
    CASE m.handler = Industry ->
            [industries |-> extract_industries_from_context(
                                args.participants, args.meeting_context, m.seed),
             trend_data |-> << >>, market_data |-> << >>,
             analysis_results |-> << >>]
      [] m.handler = Research ->
            [participant_list |-> ParseParticipants(args.participants),
             participant_data |-> << >>,
             research_results |-> << >>]
      [] m.handler = Strategy ->
            [strategy_components |->
                 generate_strategy_components(
                     args.meeting_context, args.meeting_objective,
                     args.research_data, args.industry_analysis)]
      [] m.handler = Briefing ->
            [briefing_document |->
                 BriefingDocument(StrftimeDateTime(now), args)]
      [] m.handler = Weather -> [response |-> [kind |-> "none"]]
      [] m.handler = Date -> [now |-> now]

\* analysis_results[industry] = industry_analysis
SetItem(d, key, value) ==
    [k \in DOMAIN d \cup {key} |-> IF k = key THEN value ELSE d[k]]

\* the effect of a finished sub-call of the industry agent on the locals
IndustryStep(acc, call, data) ==
    CASE call.fn = "search_industry_trends" -> [acc EXCEPT !.trend_data = data]
      [] call.fn = "search_market_analysis" -> [acc EXCEPT !.market_data = data]
      [] call.fn = "search_recent_developments" ->
            [acc EXCEPT !.analysis_results =
                SetItem(@, call.subject,
                        IndustryAnalysis(call.subject, acc.trend_data,
                                         acc.market_data, data))]

\* a sub-call that sends no request
ApplyLocal(acc, call) ==
    CASE call.fn = "search_industry_trends" ->
            IndustryStep(acc, call, search_industry_trends_nokey(call.subject))
      [] call.fn = "search_market_analysis" ->
            IndustryStep(acc, call, search_market_analysis_nokey(call.subject))
      [] call.fn = "search_recent_developments" ->
            IndustryStep(acc, call,
                         search_recent_developments_nokey(call.subject))
      [] call.fn = "placeholder" ->
            [acc EXCEPT !.research_results =
                Append(@, PlaceholderData(NewParticipantData(call.subject),
                                          call.subject))]

\* a sub-call whose request was answered by resp
ApplyResponse(acc, call, args, resp) ==
    CASE call.fn = "search_industry_trends" ->
            IndustryStep(acc, call, search_industry_trends(call.subject, resp))
      [] call.fn = "search_market_analysis" ->
            IndustryStep(acc, call, search_market_analysis(call.subject, resp))
      [] call.fn = "search_recent_developments" ->
            IndustryStep(acc, call,
                         search_recent_developments(call.subject, resp))
      [] call.fn = "perform_serper_search" ->
            LET before == IF call.q = 1
                          THEN NewParticipantData(call.subject)
                          ELSE acc.participant_data
                after == SearchStep(before, call.query, resp)
            IN  [acc EXCEPT
                    !.participant_data = after,
                    !.research_results =
                        IF call.q = 4 THEN Append(@, after) ELSE @]
      [] call.fn = "enhance_strategy_with_ai" ->
            [acc EXCEPT !.strategy_components =
                Update(@, enhance_strategy_with_ai(
                              args.meeting_context, args.meeting_objective,
                              @, resp))]
      [] call.fn = "generate_ai_briefing_enhancement" ->
            [acc EXCEPT !.briefing_document =
                WithAiInsights(@, generate_ai_briefing_enhancement(
                                      args.meeting_context,
                                      args.meeting_objective, resp))]
      [] call.fn = "requests.get" -> [acc EXCEPT !.response = resp]

\* the answer makes the handler raise past every except clause it has
Propagates(m, resp) == m.handler = Weather /\ WeatherRaises(resp)

\* a failed call is sent again, up to MAX_RETRIES requests
NextTodoRetry(todo, resp, attempts) ==
    IF Failed(resp) /\ attempts < MAX_RETRIES THEN todo ELSE Tail(todo)

\* what is left to do after a sub-call: the next one, whatever the answer
\* was and however often the call was tried (MAX_RETRIES is never read)
NextTodo(todo, resp, attempts) == Tail(todo)

\* values handed to the runtime
PyDict(d) == [tag |-> "dict", v |-> d]
PyStr(s) == [tag |-> "str", v |-> s]
PyRaise(e) == [tag |-> "exception", v |-> e]
Nothing == [tag |-> "nothing"]

\* the value of the handler's final return statement
ReturnValue(m, args, acc) ==
    CASE m.handler = Industry ->
            PyDict(IndustryReport(acc.industries, acc.analysis_results,
                                  args.meeting_context))
      [] m.handler = Research ->
            PyDict(ResearchReport(acc.participant_list, acc.research_results,
                                  args.meeting_context))
      [] m.handler = Strategy ->
            PyDict(StrategyReport(args.meeting_context, args.meeting_objective,
                                  acc.strategy_components))
      [] m.handler = Briefing ->
            PyDict(BriefingReport(acc.briefing_document, args))
      [] m.handler = Weather -> PyDict(WeatherReport(acc.response))
      [] m.handler = Date -> PyStr(CurrentDate(acc.now))

\* the except clause returns its message instead of a dict
ExceptValueBare(m, args, e) == PyStr(L("error: ") \o e)

\* the value returned by the handler's `except Exception as e` clause
ExceptValue(m, args, e) ==
    CASE m.handler = Industry ->
            PyDict(IndustryError(e, args.participants, args.meeting_context))
      [] m.handler = Research ->
            PyDict(ResearchError(e, args.participants, args.meeting_context))
      [] m.handler = Strategy ->
            PyDict(StrategyError(e, args.meeting_context,
                                 args.meeting_objective))
      [] m.handler = Briefing ->
            PyDict(BriefingError(e, args.meeting_context,
                                 args.meeting_objective))

\* the handler is at a statement of its try block that is outside the
\* sub-calls' own except clauses: a call of the injected logger
\* (agent_context.logger.info at the top of a loop pass and before return)
AtLoggerCall(m, todo) ==
    /\ HasTry(m.handler)
    /\ IF todo = << >> THEN TRUE
       ELSE \/ m.handler = Industry
               /\ Head(todo).fn = "search_industry_trends"
            \/ m.handler = Research /\ Head(todo).fn = "placeholder"
            \/ m.handler = Research
               /\ Head(todo).fn = "perform_serper_search"
               /\ Head(todo).q = 1

LoggerErrors == {L("BrokenPipeError")}

---------------------------------------------------------------------------
(* State and actions                                                       *)

EmptyFrame == [live |-> FALSE]
Pending == [kind |-> "pending"]
NoOutcome == [value |-> Nothing, path |-> "none"]

\* one frame for every invocation (names kept at module level)
FrameShared(i) == 1

\* where the locals of invocation i live: every name the handlers assign
\* is a local of the coroutine, so each invocation has a frame of its own
FrameOf(i) == i

\* the outbound call gives the event loop back while it waits: it does
\* not, requests.post, requests.get and the two SDK calls are synchronous
Yields(call) == FALSE

\* the event loop thread (asyncio.run(main())) can run a step of i
Runnable(i) == loop = 0 \/ loop = i

\* readings of the clock the handler takes
NowsFor(h) == IF h \in {Briefing, Date} THEN Nows ELSE {None}

\* requests already sent by invocation i for the sub-call
Attempts(i, call) ==
    Cardinality({k \in 1..Len(http[i]) : http[i][k].call.step = call.step})

Init ==
    /\ module \in Modules
    /\ pc = [i \in Inv |-> "idle"]
    /\ frame = [i \in Inv |-> EmptyFrame]
    /\ http = [i \in Inv |-> << >>]
    /\ loop = 0
    /\ outcome = [i \in Inv |-> NoOutcome]

\* the runtime delivers a call of the bound handler to the process
Dispatch(i) ==
    /\ pc[i] = "idle"
    /\ pc' = [pc EXCEPT ![i] = "pending"]
    /\ UNCHANGED <<module, frame, http, loop, outcome>>

\* the handler starts with arguments from the set Args and a clock reading
\* from the set Times: it runs up to its first sub-call
StartAt(i, Args, Times) ==
    /\ pc[i] = "pending"
    /\ loop = 0
    /\ \E args \in Args, now \in Times :
          frame' = [frame EXCEPT ![FrameOf(i)] =
                       [live |-> TRUE, args |-> args, now |-> now,
                        todo |-> Plan(module, args),
                        acc |-> InitAcc(module, args, now),
                        dev |-> 0]]
    /\ pc' = [pc EXCEPT ![i] = "running"]
    /\ loop' = i
    /\ UNCHANGED <<module, http, outcome>>

StartWith(i, Args) == StartAt(i, Args, NowsFor(module.handler))

Start(i) == StartWith(i, ArgsOf(module.handler))

\* a sub-call that sends no request runs to its end
Local(i) ==
    LET f == frame[FrameOf(i)] IN
    /\ pc[i] = "running"
    /\ loop = i
    /\ f.todo # << >>
    /\ ~SendsRequest(module, Head(f.todo))
    /\ frame' = [frame EXCEPT ![FrameOf(i)] =
                    [f EXCEPT !.acc = ApplyLocal(f.acc, Head(f.todo)),
                              !.todo = Tail(f.todo)]]
    /\ UNCHANGED <<module, pc, http, loop, outcome>>

\* the handler sends the request of its next sub-call and waits
Issue(i) ==
    LET f == frame[FrameOf(i)] IN
    /\ pc[i] = "running"
    /\ loop = i
    /\ f.todo # << >>
    /\ SendsRequest(module, Head(f.todo))
    /\ http' = [http EXCEPT ![i] =
                   Append(@, [call |-> Head(f.todo), resp |-> Pending])]
    /\ pc' = [pc EXCEPT ![i] = "waiting"]
    /\ loop' = IF Yields(Head(f.todo)) THEN 0 ELSE loop
    /\ UNCHANGED <<module, frame, outcome>>

\* the provider answers resp and the handler goes on to its next sub-call,
\* or the exception leaves the handler
RespondWith(i, resp) ==
    LET f == frame[FrameOf(i)]
        call == Head(f.todo)
        nominal == resp = Nominal(call)
    IN
    /\ pc[i] = "waiting"
    /\ Runnable(i)
    /\ nominal \/ f.dev < MaxDeviations
    /\ http' = [http EXCEPT ![i][Len(http[i])].resp = resp]
    /\ loop' = i
    /\ IF Propagates(module, resp)
       THEN /\ pc' = [pc EXCEPT ![i] = "raised"]
            /\ outcome' = [outcome EXCEPT ![i] =
                              [value |-> PyRaise(WeatherError(resp)),
                               path |-> "raise"]]
            /\ UNCHANGED frame
       ELSE /\ pc' = [pc EXCEPT ![i] = "running"]
            /\ frame' = [frame EXCEPT ![FrameOf(i)] =
                  [f EXCEPT
                      !.acc = ApplyResponse(f.acc, call, f.args, resp),
                      !.todo = NextTodo(f.todo, resp, Attempts(i, call)),
                      !.dev = IF nominal THEN @ ELSE @ + 1]]
            /\ UNCHANGED outcome
    /\ UNCHANGED module

Respond(i) ==
    /\ pc[i] = "waiting"
    /\ \E resp \in Responses(Head(frame[FrameOf(i)].todo)) :
          RespondWith(i, resp)

\* the except clause also switches the key off for the calls to come
\* (global EXA_API_KEY; EXA_API_KEY = None)
FaultDropsKey(i) ==
    LET f == frame[FrameOf(i)] IN
    /\ pc[i] = "running"
    /\ loop = i
    /\ AtLoggerCall(module, f.todo)
    /\ \E e \in LoggerErrors :
          outcome' = [outcome EXCEPT ![i] =
                         [value |-> ExceptValue(module, f.args, e),
                          path |-> "except"]]
    /\ pc' = [pc EXCEPT ![i] = "returned"]
    /\ module' = [module EXCEPT !.key = None]
    /\ UNCHANGED <<frame, http, loop>>

\* a logger call inside the try block raises: the except clause returns
Fault(i) ==
    LET f == frame[FrameOf(i)] IN
    /\ pc[i] = "running"
    /\ loop = i
    /\ AtLoggerCall(module, f.todo)
    /\ \E e \in LoggerErrors :
          outcome' = [outcome EXCEPT ![i] =
                         [value |-> ExceptValue(module, f.args, e),
                          path |-> "except"]]
    /\ pc' = [pc EXCEPT ![i] = "returned"]
    /\ UNCHANGED <<module, frame, http, loop>>

\* the handler reaches its return statement
Return(i) ==
    LET f == frame[FrameOf(i)] IN
    /\ pc[i] = "running"
    /\ loop = i
    /\ f.todo = << >>
    /\ outcome' = [outcome EXCEPT ![i] =
                      [value |-> ReturnValue(module, f.args, f.acc),
                       path |-> "return"]]
    /\ pc' = [pc EXCEPT ![i] = "returned"]
    /\ UNCHANGED <<module, frame, http, loop>>

\* the runtime sends the result (or the failure) on and the coroutine's
\* frame is discarded
Transmit(i) ==
    /\ pc[i] \in {"returned", "raised"}
    /\ pc' = [pc EXCEPT ![i] = "idle"]
    /\ frame' = [frame EXCEPT ![FrameOf(i)] = EmptyFrame]
    /\ http' = [http EXCEPT ![i] = << >>]
    /\ outcome' = [outcome EXCEPT ![i] = NoOutcome]
    /\ loop' = 0
    /\ UNCHANGED module

\* the handler starts on a participants string of the parsing study
StartParse(i) == StartWith(i, ParseArgs)

\* the provider answers as a working provider does
RespondNominal(i) ==
    /\ pc[i] = "waiting"
    /\ RespondWith(i, Nominal(Head(frame[FrameOf(i)].todo)))

Next ==
    \E i \in Inv :
        \/ Dispatch(i)
        \/ Start(i)
        \/ Local(i)
        \/ Issue(i)
        \/ Respond(i)
        \/ Fault(i)
        \/ Return(i)
        \/ Transmit(i)

Spec == Init /\ [][Next]_vars

\* the research agent on every short participants string
InitParse == Init /\ module.handler = Research

NextParse ==
    \E i \in Inv :
        \/ Dispatch(i)
        \/ StartParse(i)
        \/ Local(i)
        \/ Issue(i)
        \/ RespondNominal(i)
        \/ Return(i)
        \/ Transmit(i)

SpecParse == InitParse /\ [][NextParse]_vars


---------------------------------------------------------------------------
(* The extraction study: agents with their key, providers answering 200    *)
(* with bodies built from phrases that hold the keywords the code scans for *)

MaxPhrases == 2
MaxResults == 6

\* phrases for the `text` of a result of the trends search
TrendPhrases == <<
    <<"C","l","o","u","d"," ","C","o","m","p","u","t","i","n","g"," ","b","e","f","o","r","e"," ","A","r","t","i","f","i","c","i","a","l"," ","I","n","t","e","l","l","i","g","e","n","c","e">>,
    <<"A","U","T","O","M","A","T","I","O","N"," ","a","n","d"," ","M","a","c","h","i","n","e"," ","L","e","a","r","n","i","n","g">> >>

\* phrases for the `text` of a result of the market search
MarketPhrases == <<
    <<"I","n","f","l","a","t","i","o","n",","," ","C","o","m","p","e","t","i","t","i","o","n",","," ","C","o","m","p","l","i","a","n","c","e"," ","a","n","d"," ","R","E","G","U","L","A","T","I","O","N"," ","s","l","o","w"," ","G","r","o","w","t","h">>,
    <<"P","a","r","t","n","e","r","s","h","i","p",","," ","I","n","n","o","v","a","t","i","o","n",","," ","E","x","p","a","n","s","i","o","n"," ","a","n","d"," ","g","r","o","w","t","h">> >>

\* the text of the results after the fifth
LateText == <<"E","d","g","e"," ","C","o","m","p","u","t","i","n","g"," ","a","n","d"," ","R","e","c","e","s","s","i","o","n"," ","b","r","i","n","g"," ","I","n","v","e","s","t","m","e","n","t">>

\* every text made of at most MaxPhrases of the phrases, in any order
Texts(phrases) ==
    {Join([k \in DOMAIN c |-> phrases[c[k]]]) :
        c \in UNION {[1..n -> DOMAIN phrases] : n \in 0..MaxPhrases}}

\* the texts of the market search: none, one phrase, the two phrases
MarketTexts ==
    {<< >>, MarketPhrases[1], MarketPhrases[2], Join(MarketPhrases)}

\* response.json() of a search answer with r results: the first five hold
\* text, the others LateText
ExaBody(text, r) ==
    JsonDict([results |->
        [k \in 1..r |-> [text |-> IF k <= 5 THEN text ELSE LateText]]])

\* entries of the `organic` list of a Serper answer
SerperResults ==
    {[link |-> <<"h","t","t","p","s",":","/","/","w","w","w",".","l","i","n","k","e","d","i","n",".","c","o","m","/","i","n","/","a","l">>,
      title |-> L("Al - CTO"),
      snippet |-> <<"W","o","r","k","e","d"," ","a","t"," ","A","c","m","e"," ","C","o","m","p","a","n","y",";"," ","D","e","g","r","e","e"," ","f","r","o","m"," ","M","I","T">>],
     [link |-> <<"h","t","t","p","s",":","/","/","w","w","w",".","L","i","n","k","e","d","I","n",".","c","o","m","/","i","n","/","a","l">>,
      title |-> L("Al - CTO"),
      snippet |-> <<"W","O","R","K","E","D"," ","A","T"," ","A","C","M","E"," ","C","O","M","P","A","N","Y",";"," ","D","E","G","R","E","E"," ","F","R","O","M"," ","M","I","T">>],
     [link |-> <<"h","t","t","p","s",":","/","/","e","x","a","m","p","l","e",".","o","r","g","/","a","l">>,
      title |-> L("Al"),
      snippet |-> <<"p","l","a","y","s"," ","c","h","e","s","s">>]}

SerperBody(result, r) == JsonDict([organic |-> [k \in 1..r |-> result]])

\* lengths of the result lists whose entries are all alike
ResultCounts == {0, 1, MaxResults}

\* the 200 answers of the study to a call
ExtractResponses(call) ==
    CASE call.fn = "search_industry_trends" ->
            {Http(200, ExaBody(t, r)) :
                t \in Texts(TrendPhrases), r \in 0..MaxResults}
      [] call.fn = "search_market_analysis" ->
            {Http(200, ExaBody(t, r)) :
                t \in MarketTexts, r \in {1, MaxResults}}
      [] call.fn = "search_recent_developments" ->
            {Http(200, ExaBody(LateText, MaxResults))}
      [] call.fn = "perform_serper_search" ->
            {Http(200, SerperBody(x, r)) :
                x \in SerperResults, r \in ResultCounts}

\* the calls of the study: one industry, one participant
ExtractArgs(h) ==
    CASE h = Industry ->
            {[participants |-> <<"D","a","n","a"," ","(","A","c","m","e"," ","H","e","a","l","t","h","c","a","r","e",")">>,
              meeting_context |-> <<"F","i","n","T","e","c","h">>]}
      [] h = Research ->
            {[participants |-> <<"A","l">>, meeting_context |-> <<"Q","3"," ","s","y","n","c">>]}

StartExtract(i) == StartWith(i, ExtractArgs(module.handler))

RespondExtract(i) ==
    /\ pc[i] = "waiting"
    /\ \E resp \in {Nominal(Head(frame[FrameOf(i)].todo))}
                       \cup ExtractResponses(Head(frame[FrameOf(i)].todo)) :
          RespondWith(i, resp)

InitExtract ==
    /\ Init
    /\ module.handler \in {Industry, Research}
    /\ Truthy(module.key)
    /\ module.seed = 1

NextExtract ==
    \E i \in Inv :
        \/ Dispatch(i)
        \/ StartExtract(i)
        \/ Issue(i)
        \/ RespondExtract(i)
        \/ Return(i)
        \/ Transmit(i)

SpecExtract == InitExtract /\ [][NextExtract]_vars

---------------------------------------------------------------------------
(* The calendar study: get_current_date on every day of some years         *)

\* years the clock is read in: the epoch year, two years of use, the last
\* year of datetime
Years == {1970, 2024, 2025, 9999}

IsLeap(year) == year % 4 = 0 /\ (year % 100 # 0 \/ year % 400 = 0)

DaysIn(year, month) ==
    IF month = 2 THEN (IF IsLeap(year) THEN 29 ELSE 28)
    ELSE IF month \in {4, 6, 9, 11} THEN 30
    ELSE 31

\* readings of datetime.now() on every day of the years
Calendar ==
    {now \in [year : Years, month : 1..12, day : 1..31,
              hour : {9}, minute : {5}, second : {0}] :
        now.day <= DaysIn(now.year, now.month)}

StartDate(i) == StartAt(i, ArgsOf(Date), Calendar)

InitDate == Init /\ module.handler = Date

NextDate ==
    \E i \in Inv :
        \/ Dispatch(i)
        \/ StartDate(i)
        \/ Return(i)
        \/ Transmit(i)

SpecDate == InitDate /\ [][NextDate]_vars
---------------------------------------------------------------------------
(* Detection study: the industry agent on many meeting contexts            *)

\* phrases a meeting context is made of: a keyword inside other words, upper
\* case, no keyword at all, the name of a default industry, all seven keywords
ContextPhrases ==
    <<<<"p","l","a","n","t"," ","m","a","i","n","t","e","n","a","n","c","e">>,
      <<"F","i","n","T","e","c","h"," ","h","e","d","g","e"," ","f","u","n","d">>,
      <<"C","l","o","u","d"," ","H","E","A","L","T","H","C","A","R","E">>,
      <<"Q","3"," ","s","y","n","c">>,
      <<"B","u","s","i","n","e","s","s"," ","S","e","r","v","i","c","e","s">>,
      <<"A","I"," ","c","l","o","u","d"," ","e","d","g","e"," ","t","e","c","h"," ","i","n","v","e","s","t","m","e","n","t"," ","h","e","a","l","t","h","c","a","r","e"," ","f","i","n","a","n","c","e">>>>

\* the calls of the study: every context of at most MaxPhrases phrases
DetectArgs ==
    {[participants |-> <<"D","a","n","a"," ","(","A","c","m","e"," ","H","e","a","l","t","h","c","a","r","e",")">>, meeting_context |-> c] :
        c \in Texts(ContextPhrases)}

StartDetect(i) == StartWith(i, DetectArgs)

InitDetect == Init /\ module.handler = Industry

NextDetect ==
    \E i \in Inv :
        \/ Dispatch(i)
        \/ StartDetect(i)
        \/ Local(i)
        \/ Issue(i)
        \/ RespondNominal(i)
        \/ Return(i)
        \/ Transmit(i)

SpecDetect == InitDetect /\ [][NextDetect]_vars

---------------------------------------------------------------------------
(* Routing study: the research agent on names that hold a query's words    *)

\* participants strings: plain names, and names holding "LinkedIn",
\* "experience", "education" or "company"
RouteNames ==
    {<<"A","l">>, <<"A","l",","," ","B","o">>, <<"L","i","n","k","e","d","I","n"," ","C","o","r","p">>, <<"A","n","n"," ","(","u","s","e","r"," ","e","x","p","e","r","i","e","n","c","e",")">>,
     <<"E","d"," ","(","e","d","u","c","a","t","i","o","n"," ","b","o","a","r","d",")">>, <<"A","c","m","e"," ","c","o","m","p","a","n","y">>}

RouteArgs ==
    {[participants |-> p, meeting_context |-> <<"Q","3"," ","s","y","n","c">>] : p \in RouteNames}

\* an answer that names the query it answers: one result every extraction
\* function takes, with the query as its title
RouteAnswer(call) ==
    Http(200, JsonDict([organic |->
        <<[link |-> <<"h","t","t","p","s",":","/","/","w","w","w",".","l","i","n","k","e","d","i","n",".","c","o","m","/","i","n","/","x">>,
           title |-> call.query,
           snippet |-> <<"w","o","r","k","e","d"," ","a","t"," ","a"," ","c","o","m","p","a","n","y",","," ","d","e","g","r","e","e">>]>>]))

StartRoute(i) == StartWith(i, RouteArgs)

RespondRoute(i) ==
    /\ pc[i] = "waiting"
    /\ \E resp \in {Nominal(Head(frame[FrameOf(i)].todo)),
                    RouteAnswer(Head(frame[FrameOf(i)].todo)),
                    Http(502, JsonInvalid)} :
          RespondWith(i, resp)

InitRoute == Init /\ module.handler = Research /\ Truthy(module.key)

NextRoute ==
    \E i \in Inv :
        \/ Dispatch(i)
        \/ StartRoute(i)
        \/ Issue(i)
        \/ RespondRoute(i)
        \/ Return(i)
        \/ Transmit(i)

SpecRoute == InitRoute /\ [][NextRoute]_vars

---------------------------------------------------------------------------
(* Progress: the event loop runs a handler that can take a step, and every *)
(* outbound call comes back with an answer or an exception                 *)

\* a step of invocation i that the event loop or the provider takes for it
Step(i) ==
    \/ Start(i)
    \/ Local(i)
    \/ Issue(i)
    \/ Respond(i)
    \/ Return(i)
    \/ Transmit(i)

SpecLive == Spec /\ \A i \in Inv : WF_vars(Step(i))

---------------------------------------------------------------------------
(* Ranking study: the research agent on result lists in many orders        *)

\* distinct entries of an `organic` list: no match at all, a profile link,
\* upper case, a missing link, a missing title
RankPool ==
    <<[link |-> <<"h","t","t","p","s",":","/","/","e","x","a","m","p","l","e",".","o","r","g","/","a">>, title |-> L("A"),
       snippet |-> <<"p","l","a","y","s"," ","c","h","e","s","s">>],
      [link |-> <<"h","t","t","p","s",":","/","/","w","w","w",".","l","i","n","k","e","d","i","n",".","c","o","m","/","i","n","/","b">>, title |-> L("B"),
       snippet |-> <<"W","o","r","k","e","d"," ","a","t"," ","A","c","m","e",","," ","d","e","g","r","e","e"," ","i","n"," ","l","a","w">>],
      [link |-> <<"h","t","t","p","s",":","/","/","e","x","a","m","p","l","e",".","o","r","g","/","c">>, title |-> L("C"),
       snippet |-> <<"D","E","G","R","E","E"," ","f","r","o","m"," ","M","I","T",";"," ","c","u","r","r","e","n","t"," ","R","O","L","E">>],
      [link |-> <<"h","t","t","p","s",":","/","/","w","w","w",".","l","i","n","k","e","d","i","n",".","c","o","m","/","i","n","/","d">>, title |-> L("D"),
       snippet |-> <<"p","o","s","i","t","i","o","n"," ","a","t"," ","a"," ","c","o","m","p","a","n","y">>],
      [title |-> L("E"),
       snippet |-> <<"s","t","u","d","i","e","d"," ","a","t"," ","a"," ","u","n","i","v","e","r","s","i","t","y",","," ","e","x","p","e","r","i","e","n","c","e">>],
      [link |-> <<"h","t","t","p","s",":","/","/","e","x","a","m","p","l","e",".","o","r","g","/","f">>,
       snippet |-> <<"r","o","l","e"," ","i","n"," ","a","n"," ","o","r","g","a","n","i","z","a","t","i","o","n",","," ","u","n","i","v","e","r","s","i","t","y">>]>>

\* n entries of the pool in their cyclic order, from entry number s on
RankRun(s, n) ==
    [k \in 1..n |-> RankPool[((s + k - 2) % Len(RankPool)) + 1]]

\* the answers of the study: the pool from every starting point, a short
\* list, an empty one, an object without `organic`, a JSON list
RankResponses ==
    {Http(200, JsonDict([organic |-> RankRun(s, MaxResults)])) :
        s \in DOMAIN RankPool}
    \cup {Http(200, JsonDict([organic |-> RankRun(1, n)])) : n \in {0, 2}}
    \cup {Http(403, SerperDenied), Http(200, JsonList(<< >>))}

RankArgs == {[participants |-> <<"A","l">>, meeting_context |-> <<"Q","3"," ","s","y","n","c">>]}

StartRank(i) == StartWith(i, RankArgs)

RespondRank(i) ==
    /\ pc[i] = "waiting"
    /\ \E resp \in {Nominal(Head(frame[FrameOf(i)].todo))} \cup RankResponses :
          RespondWith(i, resp)

InitRank == Init /\ module.handler = Research /\ Truthy(module.key)

NextRank ==
    \E i \in Inv :
        \/ Dispatch(i)
        \/ StartRank(i)
        \/ Issue(i)
        \/ RespondRank(i)
        \/ Return(i)
        \/ Transmit(i)

SpecRank == InitRank /\ [][NextRank]_vars

---------------------------------------------------------------------------
(* Properties                                                              *)

Returned(i) == outcome[i].path \in {"return", "except"}

\* C1: when the API key the handler uses is absent, an invocation issues no
\* outbound call and what it returns is a complete fallback record (a
\* mapping without an `error` key), for every handler and input.
C1_NoKeyNoCalls ==
    ~Truthy(module.key) =>
        \A i \in Inv :
            /\ http[i] = << >>
            /\ outcome[i].path # "raise"
            /\ (outcome[i].path = "return" /\ outcome[i].value.tag = "dict")
                   => "error" \notin DOMAIN outcome[i].value.v

\* C2: an exception raised at any step of an invocation is caught inside
\* the handler: no invocation ends by propagating an exception.
C2_NeverPropagates == \A i \in Inv : pc[i] # "raised"

\* keys under which a handler hands an input back
EchoKeys ==
    {"participants", "context", "objective", "meeting_context",
     "meeting_objective", "research_data", "industry_analysis",
     "research_findings", "meeting_strategy", "city_name", "date"}

\* C3: whenever an exception is raised during processing, the returned
\* mapping has an `error` key and holds every original input parameter of
\* the call with its value unchanged.
C3_ErrorEchoesInputs ==
    \A i \in Inv :
        outcome[i].path = "except" =>
            LET v == outcome[i].value.v
                args == frame[i].args
            IN  /\ outcome[i].value.tag = "dict"
                /\ "error" \in DOMAIN v
                /\ \A p \in DOMAIN args :
                       \E k \in DOMAIN v \cap EchoKeys : v[k] = args[p]

FallbackValues(call) ==
    CASE call.fn = "search_industry_trends" ->
            {search_industry_trends(call.subject, Http(500, JsonInvalid)).trends,
             search_industry_trends(call.subject, Exc("any")).trends}
      [] call.fn = "search_market_analysis" ->
            {search_market_analysis(call.subject, Http(500, JsonInvalid)),
             search_market_analysis(call.subject, Exc("any"))}
      [] call.fn = "search_recent_developments" ->
            {search_recent_developments(call.subject,
                                        Http(500, JsonInvalid)).developments,
             search_recent_developments(call.subject, Exc("any")).developments}
      [] call.fn = "perform_serper_search" ->
            CASE call.q = 1 ->
                    {<< >>, L("LinkedIn profile information not found")}
              [] call.q = 3 -> {<< >>, L("Company information not found")}
              [] OTHER -> {<< >>}

\* the value the returned report holds in the field of a sub-call
FieldOf(v, call) ==
    CASE call.fn = "search_industry_trends" ->
            v.industry_analyses[call.subject].current_trends
      [] call.fn = "search_market_analysis" ->
            [challenges |-> v.industry_analyses[call.subject].market_challenges,
             opportunities |->
                 v.industry_analyses[call.subject].growth_opportunities,
             competitors |->
                 v.industry_analyses[call.subject].competitive_landscape]
      [] call.fn = "search_recent_developments" ->
            v.industry_analyses[call.subject].recent_developments
      [] call.fn = "perform_serper_search" ->
            LET data == v.research_findings[((call.step - 1) \div 4) + 1]
            IN  CASE call.q = 1 -> data.linkedin_profile
                  [] call.q = 2 -> data.experience
                  [] call.q = 3 -> data.company_info
                  [] call.q = 4 -> data.education

\* C5: with the key present, a sub-call of the industry or the research
\* agent whose HTTP call fails (status other than 200, or an exception) has
\* its field set to a fixed hard-coded fallback value, the remaining
\* sub-calls are still performed and the report has no `error` key.
C5_FailedCallFallsBack ==
    \A i \in Inv :
        (/\ module.handler \in {Industry, Research}
         /\ Truthy(module.key)
         /\ outcome[i].path = "return") =>
            LET v == outcome[i].value.v IN
            /\ "error" \notin DOMAIN v
            /\ Len(http[i]) = Len(Plan(module, frame[i].args))
            /\ \A k \in 1..Len(http[i]) :
                   Failed(http[i][k].resp) =>
                       FieldOf(v, http[i][k].call)
                           \in FallbackValues(http[i][k].call)

\* C6: no failed outbound call is retried: within one invocation each
\* search step, LLM call or weather request sends at most one HTTP request,
\* whatever its outcome.
C6_NoRetry ==
    \A i \in Inv :
        \A k, l \in 1..Len(http[i]) :
            k # l => http[i][k].call.step # http[i][l].call.step

C6_Witness ==
    \E i \in Inv :
        /\ Len(http[i]) >= 2
        /\ Failed(http[i][1].resp)
        /\ http[i][2].call.step # http[i][1].call.step

IndustryOrder ==
    <<"search_industry_trends", "search_market_analysis",
      "search_recent_developments">>

\* C7: within one invocation outbound calls are strictly sequential: at
\* most one is outstanding and it is the latest one, and the industry agent
\* sends, industry by industry, the trends search, then the market search,
\* then the recent-developments search.
C7_Sequential ==
    \A i \in Inv :
        /\ \A k \in 1..Len(http[i]) :
               http[i][k].resp.kind = "pending" =>
                   k = Len(http[i]) /\ pc[i] = "waiting"
        /\ module.handler = Industry =>
               \A k \in 1..Len(http[i]) :
                   /\ http[i][k].call.fn = IndustryOrder[((k - 1) % 3) + 1]
                   /\ (k - 1) % 3 # 0 =>
                          http[i][k].call.subject = http[i][k - 1].call.subject
                   /\ (k - 1) % 3 = 0 =>
                          \A l \in 1..(k - 1) :
                              http[i][l].call.subject # http[i][k].call.subject

C7_Witness ==
    \E i \in Inv :
        /\ module.handler = Industry
        /\ Len(http[i]) = 4
        /\ http[i][4].resp.kind = "pending"

\* what the handler returns when it runs alone on args with the provider
\* answers resps
RECURSIVE RunAlone(_, _, _, _)
RunAlone(acc, todo, args, resps) ==
    IF todo = << >> THEN [raised |-> FALSE, acc |-> acc]
    ELSE IF ~SendsRequest(module, Head(todo))
    THEN RunAlone(ApplyLocal(acc, Head(todo)), Tail(todo), args, resps)
    ELSE IF Propagates(module, Head(resps))
    THEN [raised |-> TRUE, exc |-> WeatherError(Head(resps))]
    ELSE RunAlone(ApplyResponse(acc, Head(todo), args, Head(resps)),
                  Tail(todo), args, Tail(resps))

AloneValue(i) ==
    LET f == frame[i]
        resps == [k \in 1..Len(http[i]) |-> http[i][k].resp]
        run == RunAlone(InitAcc(module, f.args, f.now),
                        Plan(module, f.args), f.args, resps)
    IN  IF run.raised THEN PyRaise(run.exc)
        ELSE ReturnValue(module, f.args, run.acc)

C9_OthersProgress ==
    \A i, j \in Inv :
        (i # j /\ pc[i] = "waiting" /\ pc[j] = "pending") => loop = 0

\* the piece of s between its (k-1)-th and its k-th comma
PieceAt(s, k) ==
    LET commas == {p \in 1..Len(s) : s[p] = ","}
        Bound(n) == IF n = 0 THEN 0
                    ELSE IF n > Cardinality(commas) THEN Len(s) + 1
                    ELSE CHOOSE p \in commas :
                             Cardinality({q \in commas : q < p}) = n - 1
    IN  SubSeq(s, Bound(k - 1) + 1, Bound(k) - 1)

\* s from its first to its last character that is not whitespace
Trimmed(s) ==
    LET solid == {p \in 1..Len(s) : s[p] \notin Whitespace}
    IN  IF solid = {} THEN << >>
        ELSE SubSeq(s, CHOOSE p \in solid : \A q \in solid : p <= q,
                       CHOOSE p \in solid : \A q \in solid : q <= p)

CommaCount(s) == Cardinality({p \in 1..Len(s) : s[p] = ","})

\* C10: research_meeting_participants splits the participants string on
\* commas and trims each piece, keeping order and duplicates:
\* research_findings has one entry per piece, in order, named by the trimmed
\* piece, and participants_researched is the number of pieces.
C10_CommaSplit ==
    \A i \in Inv :
        (module.handler = Research /\ outcome[i].path = "return") =>
            LET s == frame[i].args.participants
                v == outcome[i].value.v
                n == CommaCount(s) + 1
            IN  /\ v.participants_researched = n
                /\ Len(v.research_findings) = n
                /\ \A k \in 1..n :
                       v.research_findings[k].name = Trimmed(PieceAt(s, k))

C10_Witness ==
    \E i \in Inv :
        /\ outcome[i].path = "return"
        /\ frame[i].args.participants = ParseExample
        /\ [k \in 1..3 |-> outcome[i].value.v.research_findings[k].name]
               = <<<<"A","l","i","c","e">>, <<"B","o","b">>, <<"C","a","r","o","l">>>>
        /\ outcome[i].value.v.participants_researched = 3


\* a participants string with nothing but whitespace and commas in it
Malformed(s) == \A p \in 1..Len(s) : s[p] \in Whitespace \cup {","}

\* C11: for the empty participants string and for every malformed one (only
\* whitespace, or only commas), the parsed participant list is a single
\* entry whose name is the empty string: exactly one participant record.
C11_SingleEmptyEntry ==
    \A i \in Inv :
        (/\ module.handler = Research
         /\ outcome[i].path = "return"
         /\ Malformed(frame[i].args.participants)) =>
            LET v == outcome[i].value.v
            IN  /\ v.participants_researched = 1
                /\ Len(v.research_findings) = 1
                /\ v.research_findings[1].name = << >>

\* C11 as amended: a participants string of whitespace only (the empty one
\* included) gives exactly one record, named by the empty string; one of
\* whitespace and commas gives one such record per comma and one more.
C11_EmptyEntryPerPiece ==
    \A i \in Inv :
        (/\ module.handler = Research
         /\ outcome[i].path = "return"
         /\ Malformed(frame[i].args.participants)) =>
            LET s == frame[i].args.participants
                v == outcome[i].value.v
            IN  /\ v.participants_researched = CommaCount(s) + 1
                /\ Len(v.research_findings) = CommaCount(s) + 1
                /\ \A k \in DOMAIN v.research_findings :
                       v.research_findings[k].name = << >>
                /\ CommaCount(s) = 0 => Len(v.research_findings) = 1

C11_Witness ==
    \E i \in Inv :
        /\ module.handler = Research
        /\ outcome[i].path = "return"
        /\ frame[i].args.participants = <<" ", " ">>
        /\ Len(outcome[i].value.v.research_findings) = 1
        /\ outcome[i].value.v.research_findings[1].name = << >>

\* the answer the provider gave to the call of fn that invocation i sent
Answered(i, fn) ==
    {http[i][k].resp : k \in {n \in DOMAIN http[i] :
                                 /\ http[i][n].call.fn = fn
                                 /\ http[i][n].resp # Pending}}

\* a 200 answer whose body is a JSON object with a list of n results
Results200(resp, n) ==
    /\ resp.kind = "http"
    /\ resp.status = 200
    /\ resp.body.json = "dict"
    /\ "results" \in DOMAIN resp.body.v
    /\ Len(resp.body.v.results) = n

\* the industry reports of a returned call of the industry agent
Reports(i) ==
    IF module.handler = Industry /\ outcome[i].path = "return"
    THEN {outcome[i].value.v.industry_analyses[x] :
              x \in DOMAIN outcome[i].value.v.industry_analyses}
    ELSE {}

\* every entry of list is made of a keyword, and the entries come in the
\* order their keywords have in the list keywords
InKeywordOrder(list, keywords, prefix, suffix) ==
    /\ \A a \in DOMAIN list : \E k \in DOMAIN keywords :
           list[a] = prefix \o keywords[k] \o suffix
    /\ \A a, b \in DOMAIN list : a < b =>
           \E j, k \in DOMAIN keywords :
               /\ j < k
               /\ list[a] = prefix \o keywords[j] \o suffix
               /\ list[b] = prefix \o keywords[k] \o suffix

\* C12: the list a keyword extraction function (extract_trends_from_text,
\* extract_challenges_from_text, extract_opportunities_from_text) returns
\* for a text has its entries in the order of the function's keyword list,
\* not in the order the keywords occur in the text.
C12_KeywordListOrder ==
    \A i \in Inv : \A rep \in Reports(i) :
        /\ \A resp \in Answered(i, "search_industry_trends") :
               Results200(resp, 1) =>
                   InKeywordOrder(rep.current_trends, trend_keywords,
                                  L("Growing adoption of "), << >>)
        /\ \A resp \in Answered(i, "search_market_analysis") :
               Results200(resp, 1) =>
                   /\ InKeywordOrder(rep.market_challenges, challenge_keywords,
                                     L("Managing "), L(" challenges"))
                   /\ InKeywordOrder(rep.growth_opportunities,
                                     opportunity_keywords,
                                     L("Leveraging "), L(" opportunities"))

C12_Witness ==
    \E i \in Inv : \E rep \in Reports(i) :
        \E resp \in Answered(i, "search_industry_trends") :
            /\ Results200(resp, 1)
            /\ resp.body.v.results[1].text = TrendPhrases[1]
            /\ rep.current_trends =
                   <<L("Growing adoption of ") \o <<"a","r","t","i","f","i","c","i","a","l"," ","i","n","t","e","l","l","i","g","e","n","c","e">>,
                     L("Growing adoption of ") \o <<"c","l","o","u","d"," ","c","o","m","p","u","t","i","n","g">>>>

\* the participant records of a returned call of the research agent
Findings(i) ==
    IF module.handler = Research /\ outcome[i].path = "return"
    THEN {outcome[i].value.v.research_findings[k] :
              k \in DOMAIN outcome[i].value.v.research_findings}
    ELSE {}

\* C13: every extraction function returns a list of at most 3 entries for
\* every input, however many keywords or search results match: a report
\* field filled from n results has at most 3 entries for each of them, and
\* the experience and education lists have at most 3 entries.
C13_AtMostThree ==
    \A i \in Inv :
        /\ \A rep \in Reports(i) :
               /\ \A resp \in Answered(i, "search_industry_trends") :
                      \A n \in 0..(MaxResults + 1) : Results200(resp, n) =>
                          Len(rep.current_trends) <= 3 * n
               /\ \A resp \in Answered(i, "search_market_analysis") :
                      \A n \in 0..(MaxResults + 1) : Results200(resp, n) =>
                          /\ Len(rep.market_challenges) <= 3 * n
                          /\ Len(rep.growth_opportunities) <= 3 * n
                          /\ Len(rep.competitive_landscape) <= 3 * n
               /\ \A resp \in Answered(i, "search_recent_developments") :
                      \A n \in 0..(MaxResults + 1) : Results200(resp, n) =>
                          Len(rep.recent_developments) <= 3 * n
        /\ \A rec \in Findings(i) :
               /\ Len(rec.experience) <= 3
               /\ Len(rec.education) <= 3

\* six results that all tell of experience give three entries
C13_Witness ==
    \E i \in Inv : \E rec \in Findings(i) :
        \E resp \in Answered(i, "perform_serper_search") :
            /\ Len(Organic(resp.body)) = MaxResults
            /\ \A k \in 1..MaxResults :
                   SnippetHas(Organic(resp.body)[k], experience_keywords)
            /\ Len(rec.experience) = 3

\* a text with four trend keywords gives three entries
C13_WitnessTrends ==
    \E i \in Inv : \E rep \in Reports(i) :
        \E resp \in Answered(i, "search_industry_trends") :
            /\ Results200(resp, 1)
            /\ resp.body.v.results[1].text
                   = Join(<<TrendPhrases[1], TrendPhrases[2]>>)
            /\ Len(rep.current_trends) = 3

\* s with every letter in upper case
Upper(s) ==
    [k \in DOMAIN s |->
        IF \E j \in 1..26 : LowerAlpha[j] = s[k]
        THEN UpperAlpha[CHOOSE j \in 1..26 : LowerAlpha[j] = s[k]]
        ELSE s[k]]

\* a result with the fields the code scans in upper case
UpperResult(result) ==
    [f \in DOMAIN result |->
        IF f \in {"text", "snippet", "link"} THEN Upper(result[f])
        ELSE result[f]]

\* a JSON object with the scanned fields of its results in upper case
UpperBody(body) ==
    [body EXCEPT !.v =
        [f \in DOMAIN body.v |->
            IF f \in {"results", "organic"}
            THEN [k \in DOMAIN body.v[f] |-> UpperResult(body.v[f][k])]
            ELSE body.v[f]]]

UpperResp(resp) == [resp EXCEPT !.body = UpperBody(resp.body)]

\* the keyword functions of the industry agent give the same lists for an
\* answer and for the answer in upper case
IndustryCaseBlind(i) ==
    \A x \in DOMAIN outcome[i].value.v.industry_analyses :
        LET rep == outcome[i].value.v.industry_analyses[x] IN
        /\ \A resp \in Answered(i, "search_industry_trends") :
               rep.current_trends
                   = search_industry_trends(x, UpperResp(resp)).trends
        /\ \A resp \in Answered(i, "search_market_analysis") :
               /\ rep.market_challenges
                      = search_market_analysis(x, UpperResp(resp)).challenges
               /\ rep.growth_opportunities
                      = search_market_analysis(x, UpperResp(resp)).opportunities

\* the result functions of the research agent pick the same results for an
\* answer and for the answer in upper case: the fields agree up to the case
\* of the snippet they quote
ResearchCaseBlind(i, fields) ==
    \A k \in DOMAIN http[i] :
        LET call == http[i][k].call
            rec == outcome[i].value.v.research_findings[1]
            other == SearchStep(NewParticipantData(call.subject), call.query,
                                UpperResp(http[i][k].resp))
        IN  \A f \in fields :
                (/\ f = "linkedin_profile" => call.q = 1
                 /\ f = "experience" => call.q = 2
                 /\ f = "company_info" => call.q = 3
                 /\ f = "education" => call.q = 4) =>
                    IF f \in {"experience", "education"}
                    THEN /\ Len(rec[f]) = Len(other[f])
                         /\ \A n \in DOMAIN rec[f] :
                                Lower(rec[f][n]) = Lower(other[f][n])
                    ELSE Lower(rec[f]) = Lower(other[f])

\* C14: matching in every extraction function is case-insensitive substring
\* containment: changing the letter case of the scanned input (response
\* text, result snippet, result link for the linkedin.com match, meeting
\* context for industry detection) changes neither which keywords match nor
\* the value returned.
C14_CaseInsensitive ==
    \A i \in Inv : outcome[i].path = "return" =>
        /\ module.handler = Industry =>
               /\ IndustryCaseBlind(i)
               /\ frame[i].acc.industries =
                      extract_industries_from_context(
                          frame[i].args.participants,
                          Upper(frame[i].args.meeting_context), module.seed)
        /\ module.handler = Research =>
               ResearchCaseBlind(i, {"linkedin_profile", "experience",
                                     "company_info", "education"})

\* the same without the linkedin.com match
C14_CaseInsensitiveButLink ==
    \A i \in Inv : outcome[i].path = "return" =>
        /\ module.handler = Industry =>
               /\ IndustryCaseBlind(i)
               /\ frame[i].acc.industries =
                      extract_industries_from_context(
                          frame[i].args.participants,
                          Upper(frame[i].args.meeting_context), module.seed)
        /\ module.handler = Research =>
               ResearchCaseBlind(i, {"experience", "company_info",
                                     "education"})

\* the number a string of decimal digits writes
RECURSIVE NumberOf(_)
NumberOf(s) ==
    IF s = << >> THEN 0
    ELSE 10 * NumberOf(SubSeq(s, 1, Len(s) - 1))
             + (CHOOSE d \in 0..9 : Digits[d + 1] = s[Len(s)])

IsDigits(s) == \A k \in DOMAIN s : \E d \in 0..9 : Digits[d + 1] = s[k]

\* C15: for every calendar date, get_current_date returns the current date
\* as a 10-character string YYYY-MM-DD: four-digit year, hyphen, two-digit
\* zero-padded month 01..12, hyphen, two-digit zero-padded day 01..31.
C15_DateFormat ==
    \A i \in Inv :
        (module.handler = Date /\ outcome[i].path = "return") =>
            LET s == outcome[i].value.v
                now == frame[i].now
            IN  /\ outcome[i].value.tag = "str"
                /\ Len(s) = 10
                /\ s[5] = "-" /\ s[8] = "-"
                /\ IsDigits(SubSeq(s, 1, 4))
                /\ IsDigits(SubSeq(s, 6, 7))
                /\ IsDigits(SubSeq(s, 9, 10))
                /\ NumberOf(SubSeq(s, 1, 4)) = now.year
                /\ NumberOf(SubSeq(s, 6, 7)) = now.month
                /\ NumberOf(SubSeq(s, 9, 10)) = now.day
                /\ NumberOf(SubSeq(s, 6, 7)) \in 1..12
                /\ NumberOf(SubSeq(s, 9, 10)) \in 1..31

C15_Witness ==
    \E i \in Inv :
        /\ module.handler = Date
        /\ outcome[i].path = "return"
        /\ frame[i].now.year = 2024
        /\ frame[i].now.month = 2
        /\ frame[i].now.day = 9
        /\ outcome[i].value.v = <<"2","0","2","4","-","0","2","-","0","9">>

\* the weather answers that hold a non-empty list at forecast.forecastday
ForecastDays(i) ==
    {resp.body.v.forecast.forecastday :
        resp \in {r \in Answered(i, "requests.get") :
                     /\ r.kind = "http"
                     /\ r.body.json = "dict"
                     /\ "forecast" \in DOMAIN r.body.v
                     /\ "forecastday" \in DOMAIN r.body.v.forecast
                     /\ r.body.v.forecast.forecastday # << >>}}

\* C16: given a city, a date and a provider response whose JSON holds a
\* non-empty list at forecast.forecastday, get_weather returns exactly the
\* `day` object of the first forecastday element, unmodified.
C16_ReturnsDay ==
    \A i \in Inv : \A days \in ForecastDays(i) :
        (module.handler = Weather /\ outcome[i].path = "return") =>
            outcome[i].value.v = days[1].day

\* C16 as amended: get_weather returns a mapping with the one key
\* weather_forecast, whose value is exactly the `day` object of the first
\* forecastday element, unmodified.
C16_ReturnsDayUnderKey ==
    \A i \in Inv : \A days \in ForecastDays(i) :
        (module.handler = Weather /\ outcome[i].path = "return") =>
            /\ outcome[i].value.tag = "dict"
            /\ DOMAIN outcome[i].value.v = {"weather_forecast"}
            /\ outcome[i].value.v.weather_forecast = days[1].day

C16_Witness ==
    \E i \in Inv : \E days \in ForecastDays(i) :
        /\ module.handler = Weather
        /\ outcome[i].path = "return"
        /\ Len(days) = 2
        /\ days[1].day # days[2].day
        /\ outcome[i].value.v.weather_forecast = WeatherDay

\* the locals after the sub-calls of todo, none of which sends a request
RECURSIVE RunLocal(_, _)
RunLocal(acc, todo) ==
    IF todo = << >> THEN acc
    ELSE RunLocal(ApplyLocal(acc, Head(todo)), Tail(todo))

\* what a call with arguments args returns in a process m without its key,
\* when the clock reads now
FallbackValue(m, args, now) ==
    ReturnValue(m, args, RunLocal(InitAcc(m, args, now), Plan(m, args)))

\* the returned value of i is the one every call with the same inputs
\* returns, in a process with any hash seed and at any clock reading
SameForAll(i) ==
    \A s \in HashSeeds, now \in NowsFor(module.handler) :
        outcome[i].value =
            FallbackValue([module EXCEPT !.seed = s], frame[i].args, now)

\* C17: in fallback mode (API key absent) each handler's result is
\* deterministic: two invocations with identical inputs return identical
\* records, including every field value and the order of every list (for
\* example executive_summary.industries_analyzed).
C17_FallbackDeterministic ==
    (~Truthy(module.key) /\ HasTry(module.handler)) =>
        \A i \in Inv : outcome[i].path = "return" => SameForAll(i)

\* the same for the research and the strategy agent alone
C17_ResearchStrategyDeterministic ==
    (~Truthy(module.key) /\ module.handler \in {Research, Strategy}) =>
        \A i \in Inv : outcome[i].path = "return" => SameForAll(i)

\* the industry agent alone: the order of a set's elements varies
C17_IndustryDeterministic ==
    (~Truthy(module.key) /\ module.handler = Industry) =>
        \A i \in Inv : outcome[i].path = "return" => SameForAll(i)

\* C18: an invocation of any handler leaves all process-level state
\* unchanged: the key configuration and the clients set at startup are the
\* same after every step of every invocation (successful, fallback or
\* error), and once an invocation is over nothing of it is kept, so a call
\* finds the process as the first call found it; the only effects are the
\* outbound requests.
C18_NoProcessState ==
    /\ [][module' = module]_vars
    /\ [](\A i \in Inv :
             pc[i] \in {"idle", "pending"} =>
                 /\ frame[i] = EmptyFrame
                 /\ http[i] = << >>
                 /\ outcome[i] = NoOutcome)

\* a call ended in its except clause in a process that has its key
C18_Witness ==
    \E i \in Inv :
        /\ pc[i] = "returned"
        /\ outcome[i].path = "except"
        /\ Truthy(module.key)
        /\ http[i] # << >>

\* the keywords of the list keywords that the first n results of a 200
\* answer mention in their text
Mentioned(resp, n, keywords) ==
    LET results == resp.body.v.results
        texts == {Lower(results[r].text) :
                     r \in {q \in DOMAIN results :
                               q <= n /\ "text" \in DOMAIN results[q]}}
    IN  {k \in DOMAIN keywords : \E t \in texts : Contains(t, keywords[k])}

\* C19: on the live path of the industry agent (key present, HTTP 200), for
\* any provider response each industry's report has at most 10
\* current_trends, 8 market_challenges, 8 growth_opportunities, 6 entries
\* of competitive_landscape and 10 recent_developments, and its trends are
\* drawn from the first 5 results only.
C19_ReportBounds ==
    \A i \in Inv : \A rep \in Reports(i) :
        (/\ Truthy(module.key)
         /\ \A k \in DOMAIN http[i] :
                http[i][k].resp.kind = "http" /\ http[i][k].resp.status = 200)
        =>
        /\ Len(rep.current_trends) <= 10
        /\ Len(rep.market_challenges) <= 8
        /\ Len(rep.growth_opportunities) <= 8
        /\ Len(rep.competitive_landscape) <= 6
        /\ Len(rep.recent_developments) <= 10
        /\ \A resp \in Answered(i, "search_industry_trends") :
               {rep.current_trends[a] : a \in DOMAIN rep.current_trends}
                   \subseteq
                       {L("Growing adoption of ") \o trend_keywords[k] :
                           k \in Mentioned(resp, 5, trend_keywords)}

\* six results, the sixth telling of edge computing, and a report with ten
\* trends
C19_Witness ==
    \E i \in Inv : \E rep \in Reports(i) :
        \E resp \in Answered(i, "search_industry_trends") :
            /\ Results200(resp, 6)
            /\ Mentioned(resp, 6, trend_keywords)
                   # Mentioned(resp, 5, trend_keywords)
            /\ Len(rep.current_trends) = 10
            /\ Len(rep.competitive_landscape) = 6

\* the inputs a handler takes from the agents upstream of it
Upstream(h) ==
    IF h = Briefing
    THEN {"research_findings", "industry_analysis", "meeting_strategy"}
    ELSE IF h = Strategy THEN {"research_data", "industry_analysis"}
    ELSE {}

\* texts an upstream agent may have produced
UpstreamValues ==
    {<< >>, <<"A","l",":"," ","C","T","O">>, <<"G","r","o","w","i","n","g"," ","a","d","o","p","t","i","o","n"," ","o","f"," ","a","u","t","o","m","a","t","i","o","n">>}

\* what the handler returns for args at the clock reading and with the
\* provider answers invocation i had
ValueFor(i, args) ==
    LET resps == [k \in DOMAIN http[i] |-> http[i][k].resp]
        run == RunAlone(InitAcc(module, args, frame[i].now),
                        Plan(module, args), args, resps)
    IN  ReturnValue(module, args, run.acc)

\* C20: the reports of compile_meeting_briefing and develop_meeting_strategy
\* are built from their upstream inputs: for each of these inputs there are
\* two calls that differ in that input only and return different records
\* (same clock reading, same provider answers).
C20_ReflectsUpstream ==
    \A i \in Inv :
        (module.handler \in {Briefing, Strategy} /\ outcome[i].path = "return")
        =>
        \A f \in Upstream(module.handler) :
            \E args \in ArgsOf(module.handler), x \in UpstreamValues :
                ValueFor(i, [args EXCEPT ![f] = x]) # ValueFor(i, args)

\* what the code does: the record a call returns stays the same whatever
\* is put in the place of an upstream input
C20_IgnoresUpstream ==
    \A i \in Inv :
        (module.handler \in {Briefing, Strategy} /\ outcome[i].path = "return")
        =>
        \A f \in Upstream(module.handler), x \in UpstreamValues :
            ValueFor(i, [frame[i].args EXCEPT ![f] = x]) = outcome[i].value
---------------------------------------------------------------------------
(* Industry detection                                                      *)

\* the industries a running call of the industry agent goes through
Industries(i) ==
    IF module.handler = Industry /\ frame[i].live
    THEN {frame[i].acc.industries[k] : k \in DOMAIN frame[i].acc.industries}
    ELSE {}

\* C21: an industry keyword that occurs in the participants string (here
\* "healthcare") is among the industries analysed, whatever the meeting
\* context holds.
C21_ParticipantsDetected ==
    \A i \in Inv :
        (/\ module.handler = Industry
         /\ frame[i].live
         /\ Contains(Lower(frame[i].args.participants), <<"h","e","a","l","t","h","c","a","r","e">>))
        => "Healthcare" \in Industries(i)

\* the keywords of extract_industries_from_context and the industry each adds
IndustryKeywords ==
    <<[kw |-> <<"a","i">>, industry |-> "Artificial Intelligence"],
      [kw |-> <<"a","r","t","i","f","i","c","i","a","l"," ","i","n","t","e","l","l","i","g","e","n","c","e">>, industry |-> "Artificial Intelligence"],
      [kw |-> <<"c","l","o","u","d">>, industry |-> "Cloud Computing"],
      [kw |-> <<"e","d","g","e"," ","c","o","m","p","u","t","i","n","g">>, industry |-> "Edge Computing"],
      [kw |-> <<"e","d","g","e">>, industry |-> "Edge Computing"],
      [kw |-> <<"t","e","c","h","n","o","l","o","g","y">>, industry |-> "Technology"],
      [kw |-> <<"t","e","c","h">>, industry |-> "Technology"],
      [kw |-> <<"i","n","v","e","s","t","m","e","n","t">>, industry |-> "Investment Banking"],
      [kw |-> <<"h","e","a","l","t","h","c","a","r","e">>, industry |-> "Healthcare"],
      [kw |-> <<"f","i","n","a","n","c","e">>, industry |-> "Financial Services"],
      [kw |-> <<"f","i","n","a","n","c","i","a","l">>, industry |-> "Financial Services"]>>

\* text[p .. p + Len(kw) - 1] is kw up to the case of its letters
MatchesAt(text, p, kw) ==
    /\ p + Len(kw) - 1 <= Len(text)
    /\ \A j \in 1..Len(kw) : LowerChar(text[p + j - 1]) = kw[j]

\* the industries one of whose keywords occurs somewhere in text
KeywordIndustries(text) ==
    {IndustryKeywords[n].industry :
        n \in {m \in DOMAIN IndustryKeywords :
                  \E p \in 1..Len(text) :
                      MatchesAt(text, p, IndustryKeywords[m].kw)}}

C22_WitnessDefault ==
    \E i \in Inv :
        /\ module.handler = Industry
        /\ frame[i].live
        /\ frame[i].args.meeting_context = <<"Q","3"," ","s","y","n","c",","," ","B","u","s","i","n","e","s","s"," ","S","e","r","v","i","c","e","s">>
        /\ Industries(i) = {"Technology", "Business Services"}

\* list has no entry twice
NoDuplicates(list) ==
    \A j, k \in DOMAIN list : list[j] = list[k] => j = k

\* C23: in every result of the industry agent that is not an error record,
\* executive_summary.industries_analyzed is not empty, has no duplicates, has
\* at most 7 entries and is exactly the key set of industry_analyses, and
\* industry_analyses[k].industry_name is k for every key k.
C23_SummaryMatchesAnalyses ==
    \A i \in Inv :
        (module.handler = Industry /\ outcome[i].path = "return") =>
            LET v == outcome[i].value.v
                analyzed == v.executive_summary.industries_analyzed
                analyses == v.industry_analyses
            IN  /\ "error" \notin DOMAIN v
                /\ Len(analyzed) \in 1..7
                /\ NoDuplicates(analyzed)
                /\ {analyzed[k] : k \in DOMAIN analyzed} =
                       {L(x) : x \in DOMAIN analyses}
                /\ \A x \in DOMAIN analyses :
                       analyses[x].industry_name = L(x)

\* a result for a context with all seven keywords
C23_Witness ==
    \E i \in Inv :
        /\ module.handler = Industry
        /\ outcome[i].path = "return"
        /\ Len(outcome[i].value.v.executive_summary.industries_analyzed) = 7
        /\ Cardinality(DOMAIN outcome[i].value.v.industry_analyses) = 7

---------------------------------------------------------------------------
(* Participant research                                                    *)

\* the value a search for query number q leaves in its own field of
\* participant_data when the provider answers resp, and the field
OwnField(q) ==
    CASE q = 1 -> "linkedin_profile"
      [] q = 2 -> "experience"
      [] q = 3 -> "company_info"
      [] q = 4 -> "education"

OwnValue(q, resp) ==
    IF perform_serper_search_raises(resp)
    THEN NewParticipantData(<< >>)[OwnField(q)]
    ELSE CASE q = 1 -> extract_linkedin_info(resp.body)
           [] q = 2 -> extract_experience_info(resp.body)
           [] q = 3 -> extract_company_info(resp.body)
           [] q = 4 -> extract_education_info(resp.body)

\* in the result of invocation i, the four fields of participant number k
\* hold what the participant's four searches found, each its own
FieldsFromOwnSearch(i, k) ==
    \A q \in 1..4 :
        outcome[i].value.v.research_findings[k][OwnField(q)] =
            OwnValue(q, http[i][4 * (k - 1) + q].resp)

\* a returned call of the research agent that searched
Researched(i) ==
    /\ module.handler = Research
    /\ Truthy(module.key)
    /\ outcome[i].path = "return"

\* C24: with the key, for every participant name, the LinkedIn search fills
\* linkedin_profile, the experience search fills experience, the company
\* search fills company_info and the education search fills education,
\* whatever text the name holds.
C24_OwnFieldAnyName ==
    \A i \in Inv :
        Researched(i) =>
            \A k \in DOMAIN outcome[i].value.v.research_findings :
                FieldsFromOwnSearch(i, k)

\* the words of the if/elif chain that come before a query's own word
PlainName(name) ==
    /\ ~Contains(name, <<"L","i","n","k","e","d","I","n">>)
    /\ ~Contains(name, <<"e","x","p","e","r","i","e","n","c","e">>)
    /\ ~Contains(name, <<"e","d","u","c","a","t","i","o","n">>)

\* what holds of the code: each search fills its own field for the names
\* that hold none of "LinkedIn", "experience" and "education"
C24_OwnFieldPlainName ==
    \A i \in Inv :
        Researched(i) =>
            \A k \in DOMAIN outcome[i].value.v.research_findings :
                PlainName(outcome[i].value.v.research_findings[k].name) =>
                    FieldsFromOwnSearch(i, k)

---------------------------------------------------------------------------
(* Termination                                                             *)

\* C25: every invocation that has started eventually returns, provided
\* every outbound call comes back; with the key the industry agent sends
\* exactly 3 requests per detected industry, at most 21, and the research
\* agent exactly 4 per parsed participant, and then returns its record.
C25_EventuallyReturns ==
    /\ \A i \in Inv : (pc[i] = "running") ~> (pc[i] = "returned")
    /\ [](\A i \in Inv :
             (outcome[i].path = "return" /\ Truthy(module.key)) =>
                 /\ module.handler = Industry =>
                        /\ Len(http[i]) = 3 * Len(frame[i].acc.industries)
                        /\ Len(http[i]) <= 21
                 /\ module.handler = Research =>
                        Len(http[i]) = 4 * Len(frame[i].acc.participant_list))

\* what holds of the code: every invocation that has started ends, by a
\* return or, in get_weather, by the exception of a failed request
C25_EventuallyEnds ==
    \A i \in Inv : (pc[i] = "running") ~> (pc[i] \in {"returned", "raised"})

\* what holds of the code: the numbers of requests of a call that returns
\* its report
C25_RequestCounts ==
    \A i \in Inv :
        (outcome[i].path = "return" /\ Truthy(module.key)) =>
            /\ module.handler = Industry =>
                   /\ Len(http[i]) = 3 * Len(frame[i].acc.industries)
                   /\ Len(http[i]) <= 21
                   /\ \A k \in DOMAIN frame[i].acc.industries :
                          Cardinality({n \in DOMAIN http[i] :
                              http[i][n].call.subject =
                                  frame[i].acc.industries[k]}) = 3
            /\ module.handler = Research =>
                   Len(http[i]) = 4 * Len(frame[i].acc.participant_list)

---------------------------------------------------------------------------
(* Strategy and briefing                                                   *)

BaseComponents ==
    {"talking_points", "strategic_questions", "conversation_starters",
     "value_propositions", "potential_objections", "common_ground_areas"}

StrategyReportKeys ==
    {"meeting_context", "meeting_objective", "strategy_components",
     "meeting_flow_suggestions", "key_success_factors", "contingency_plans",
     "pre_meeting_checklist", "success_metrics", "summary"}

\* the enhancement call of invocation i failed
EnhancementFailed(i) ==
    /\ http[i] # << >>
    /\ http[i][1].resp # Pending
    /\ LlmRaises(http[i][1].resp)

\* C26: when the enhancement call of develop_meeting_strategy fails, the
\* handler still returns the full report without a top-level `error` key and
\* the failure shows only inside strategy_components (ai_generated false,
\* ai_enhanced_content "AI enhancement not available"); and whether the
\* enhancement succeeds, fails or is skipped, the six base components are
\* there with the values computed before it.
C26_EnhancementFailureContained ==
    \A i \in Inv :
        (module.handler = Strategy /\ outcome[i].path = "return") =>
            LET v == outcome[i].value.v
                args == frame[i].args
                base == generate_strategy_components(
                            args.meeting_context, args.meeting_objective,
                            args.research_data, args.industry_analysis)
            IN  /\ outcome[i].value.tag = "dict"
                /\ DOMAIN v = StrategyReportKeys
                /\ BaseComponents \subseteq DOMAIN v.strategy_components
                /\ \A k \in BaseComponents : v.strategy_components[k] = base[k]
                /\ EnhancementFailed(i) =>
                       /\ v.strategy_components.ai_generated = FALSE
                       /\ v.strategy_components.ai_enhanced_content =
                              L("AI enhancement not available")
                       /\ [k \in DOMAIN v \ {"strategy_components"} |-> v[k]] =
                              [k \in StrategyReportKeys \ {"strategy_components"}
                                  |-> StrategyReport(args.meeting_context,
                                                     args.meeting_objective,
                                                     base)[k]]
                /\ (http[i] = << >>) => v.strategy_components = base

\* the strategy agent returned after its enhancement call had failed
C26_Witness ==
    \E i \in Inv :
        /\ module.handler = Strategy
        /\ outcome[i].path = "return"
        /\ EnhancementFailed(i)
        /\ http[i][1].resp.kind = "exc"

\* the strategy agent returned after its enhancement call had succeeded
C26_WitnessEnhanced ==
    \E i \in Inv :
        /\ module.handler = Strategy
        /\ outcome[i].path = "return"
        /\ http[i] # << >>
        /\ outcome[i].value.v.strategy_components.ai_generated = TRUE

\* a briefing report without its timestamp and its AI insights
Stripped(report) ==
    [report EXCEPT
        !.briefing_document.briefing_header.generated_at = << >>,
        !.briefing_document.supplementary_materials =
            [k \in DOMAIN @ \ {"ai_enhanced_insights"} |-> @[k]]]

\* what compile_meeting_briefing returns on args at the time now when no
\* client is configured
NoKeyBriefing(args, now) ==
    BriefingReport(BriefingDocument(StrftimeDateTime(now), args), args)

\* C27: in a briefing, supplementary_materials has the key
\* ai_enhanced_insights exactly when the LLM client was configured; a failing
\* LLM call leaves a string that starts with "AI enhancement not available"
\* there; and every other part of the record is as in the result without
\* the key, the generated_at timestamp aside.
C27_InsightsIffClient ==
    \A i \in Inv :
        (module.handler = Briefing /\ outcome[i].path = "return") =>
            LET v == outcome[i].value.v
                materials == v.briefing_document.supplementary_materials
            IN  /\ ("ai_enhanced_insights" \in DOMAIN materials)
                       <=> Truthy(module.key)
                /\ (http[i] # << >> /\ LlmRaises(http[i][1].resp)) =>
                       \* the literal of the f-string, which starts with the text
                       SubSeq(materials.ai_enhanced_insights, 1, 1) =
                           L("AI enhancement not available: ")
                /\ \A now \in Nows :
                       Stripped(v) = Stripped(NoKeyBriefing(frame[i].args, now))

\* a briefing whose LLM call failed
C27_Witness ==
    \E i \in Inv :
        /\ module.handler = Briefing
        /\ outcome[i].path = "return"
        /\ http[i] # << >>
        /\ LlmRaises(http[i][1].resp)
        /\ "ai_enhanced_insights" \in
               DOMAIN outcome[i].value.v.briefing_document.supplementary_materials

\* a briefing of a process without the key
C27_WitnessNoKey ==
    \E i \in Inv :
        /\ module.handler = Briefing
        /\ outcome[i].path = "return"
        /\ ~Truthy(module.key)
        /\ "ai_enhanced_insights" \notin
               DOMAIN outcome[i].value.v.briefing_document.supplementary_materials

---------------------------------------------------------------------------
(* Order of the research findings                                          *)

\* the `organic` list of a provider answer, empty when it has none
ProviderList(resp) ==
    IF /\ resp.kind = "http"
       /\ resp.body.json = "dict"
       /\ "organic" \in DOMAIN resp.body.v
    THEN resp.body.v.organic
    ELSE << >>

\* positions of the entries of list whose snippet holds one of keywords,
\* letter case aside
SnippetHits(list, keywords) ==
    {k \in DOMAIN list :
        \E n \in DOMAIN keywords :
            \E p \in 1..Len(Get(list[k], "snippet", << >>)) :
                MatchesAt(Get(list[k], "snippet", << >>), p, keywords[n])}

\* positions of the entries of list whose link holds linkedin.com
LinkHits(list) ==
    {k \in DOMAIN list :
        \E p \in 1..(Len(Get(list[k], "link", << >>)) - 11) :
            SubSeq(Get(list[k], "link", << >>), p, p + 11) = <<"l","i","n","k","e","d","i","n",".","c","o","m">>}

\* out holds the entries of the first three positions of hits, in the order of list
FirstThree(list, hits, out) ==
    /\ Len(out) = IF Cardinality(hits) < 3 THEN Cardinality(hits) ELSE 3
    /\ \A j \in DOMAIN out :
           \E k \in hits :
               /\ Cardinality({m \in hits : m < k}) = j - 1
               /\ out[j] = TitleSnippet(<< >>, list[k], L(": "))

\* out is the entry of the first position of hits, or notfound without one
FirstOne(list, hits, out, prefix, notfound) ==
    IF hits = {} THEN out = notfound
    ELSE \E k \in hits :
             /\ \A m \in hits : k <= m
             /\ out = TitleSnippet(prefix, list[k], L(" - "))

\* C28: the research extraction functions rank nothing: experience and
\* education are the first three organic results, in provider order, whose
\* snippet holds a keyword of the function; the LinkedIn and the company
\* entry come from the first matching result; without an `organic` key or a
\* match the lists are empty and the strings are the fixed "not found" texts.
C28_ProviderOrder ==
    \A i \in Inv :
        Researched(i) =>
            LET found == outcome[i].value.v.research_findings[1]
                list(q) == ProviderList(http[i][q].resp)
            IN  /\ FirstOne(list(1), LinkHits(list(1)), found.linkedin_profile,
                            L("LinkedIn Profile: "),
                            L("LinkedIn profile information not found"))
                /\ FirstThree(list(2),
                              SnippetHits(list(2), experience_keywords),
                              found.experience)
                /\ FirstOne(list(3), SnippetHits(list(3), company_keywords),
                            found.company_info, L("Company Info: "),
                            L("Company information not found"))
                /\ FirstThree(list(4),
                              SnippetHits(list(4), education_keywords),
                              found.education)

\* five of the results of the experience search match and the first result
\* does not: the findings are the second, third and fourth
C28_Witness ==
    \E i \in Inv :
        /\ Researched(i)
        /\ ProviderList(http[i][2].resp) = RankRun(1, MaxResults)
        /\ Cardinality(SnippetHits(RankRun(1, MaxResults),
                                   experience_keywords)) > 3
        /\ Len(outcome[i].value.v.research_findings[1].experience) = 3
        /\ outcome[i].value.v.research_findings[1].experience[1] =
               TitleSnippet(<< >>, RankPool[2], L(": "))

\* an answer without `organic`: an empty list and the "not found" text
C28_WitnessNotFound ==
    \E i \in Inv :
        /\ Researched(i)
        /\ http[i][1].resp = Http(403, SerperDenied)
        /\ http[i][4].resp = Http(200, JsonList(<< >>))
        /\ outcome[i].value.v.research_findings[1].linkedin_profile =
               L("LinkedIn profile information not found")
        /\ outcome[i].value.v.research_findings[1].education = << >>

=============================================================================
